---- MODULE Spec2Model ----
(***************************************************************************)
(* Study-Tracker: the correlation engine (core/correlation_engine.py) and  *)
(* the part of the data store (core/database_manager.py) it reads.         *)
(*                                                                         *)
(* A calendar day is a number d, standing for the date 2025-10-d.  A cell  *)
(* of a frame is the empty tuple (pandas NaN / SQL NULL) or a rational     *)
(* <<n, d>> in lowest terms with d > 0.  A frame is a record               *)
(*   [index |-> sequence of days, cols |-> [column name -> sequence of     *)
(*    cells]], column-oriented like a pandas DataFrame.                    *)
(***************************************************************************)
EXTENDS Integers, Sequences, FiniteSets, Bags, TLC

VARIABLES
    store,      \* the SQLite tables: tags, sessions, health, activities, factors, log
    call,       \* the arguments of the last engine call, or NoCall
    frame,      \* the frame the last engine call worked on, or NoFrame
    result,     \* what the last engine call returned (or raised), or NoResult
    tab         \* the analytics tab: its request token, overlay, screen and callbacks

vars == <<store, call, frame, result, tab>>

-----------------------------------------------------------------------------
(* Bounds of the model *)

MaxDay == 4            \* days the store specification can write to and query
MaxSessions == 2       \* rows of the sessions table
MaxSpan == 10          \* longest queried range of the date-key specification
MaxHealthRows == 2     \* rows of health_metrics in the date-key specification

-----------------------------------------------------------------------------
(* Rationals and cells *)

NaN == <<>>

IsNa(c) == c = NaN

NotNa(c) == c # NaN

Abs(n) == IF n < 0 THEN -n ELSE n

RECURSIVE Gcd(_, _)
Gcd(a, b) == IF b = 0 THEN a ELSE Gcd(b, a % b)

\* the rational n/d, d # 0, in lowest terms with a positive denominator
Rat(n, d) ==
    LET g == Gcd(Abs(n), Abs(d))
        s == IF d < 0 THEN -1 ELSE 1
    IN  <<(s * n) \div g, (s * d) \div g>>

Num(n) == <<n, 1>>

RatAdd(x, y) == Rat(x[1] * y[2] + y[1] * x[2], x[2] * y[2])

RatDiv(x, k) == Rat(x[1], x[2] * k)

RatLeq(x, y) == x[1] * y[2] <= y[1] * x[2]

RatLt(x, y) == x[1] * y[2] < y[1] * x[2]

Zero == Num(0)

RECURSIVE SumCells(_)
\* pandas sum(): NaN cells are skipped, the sum of nothing is 0
SumCells(cs) ==
    IF cs = <<>> THEN Zero
    ELSE IF Len(cs) = 1 THEN (IF IsNa(cs[1]) THEN Zero ELSE cs[1])
    ELSE LET half == Len(cs) \div 2
         IN  RatAdd(SumCells(SubSeq(cs, 1, half)),
                    SumCells(SubSeq(cs, half + 1, Len(cs))))

CountNotNa(cs) == Cardinality({i \in 1..Len(cs) : NotNa(cs[i])})

\* pandas mean(): NaN cells are skipped, the mean of nothing is NaN
MeanCells(cs) ==
    IF CountNotNa(cs) = 0 THEN NaN ELSE RatDiv(SumCells(cs), CountNotNa(cs))

-----------------------------------------------------------------------------
(* Dates as text: what SQLite compares and what pandas parses *)

UpperLetters == "ABCDEFGHIJKLMNOPQRSTUVWXYZ"

LowerLetters == "abcdefghijklmnopqrstuvwxyz"

Digits == "0123456789"

RECURSIVE IndexIn(_, _, _)
\* the position of the character c in s from position i on, 0 when absent
IndexIn(s, c, i) ==
    IF i > Len(s) THEN 0
    ELSE IF SubSeq(s, i, i) = c THEN i
    ELSE IndexIn(s, c, i + 1)

\* the ASCII code of a character of a date, a tag or a factor name
CharCode(c) ==
    CASE c = " " -> 32
      [] c = "-" -> 45
      [] c = "_" -> 95
      [] IndexIn(Digits, c, 1) > 0 -> 47 + IndexIn(Digits, c, 1)
      [] IndexIn(UpperLetters, c, 1) > 0 -> 64 + IndexIn(UpperLetters, c, 1)
      [] IndexIn(LowerLetters, c, 1) > 0 -> 96 + IndexIn(LowerLetters, c, 1)

Digit(n) == SubSeq(Digits, n + 1, n + 1)

DigitValue(c) == CharCode(c) - CharCode("0")

RECURSIVE IntText(_)
\* str(n) of a natural number
IntText(n) == IF n < 10 THEN Digit(n) ELSE IntText(n \div 10) \o Digit(n % 10)

\* the calendar the days are counted in: day 1 is 2025-10-01, and the
\* months that follow it with their lengths
Year == "2025-"

Months == <<[number |-> 10, length |-> 31], [number |-> 11, length |-> 30],
            [number |-> 12, length |-> 31]>>

RECURSIVE MonthIndex(_, _)
\* the position in Months of the month the d-th day from month m on falls in
MonthIndex(d, m) ==
    IF d <= Months[m].length THEN m ELSE MonthIndex(d - Months[m].length, m + 1)

RECURSIVE DaysBefore(_)
\* the number of days of the calendar before the first day of month m
DaysBefore(m) == IF m = 1 THEN 0 ELSE Months[m - 1].length + DaysBefore(m - 1)

TwoDigits(n) == Digit(n \div 10) \o Digit(n % 10)

\* date.isoformat() and strftime('%Y-%m-%d'): zero-padded
IsoText(d) ==
    LET m == MonthIndex(d, 1)
    IN  Year \o TwoDigits(Months[m].number) \o "-" \o TwoDigits(d - DaysBefore(m))

\* what strptime('%Y-%m-%d') also accepts: the day without its leading zero
ShortText(d) ==
    LET m == MonthIndex(d, 1)
        dom == d - DaysBefore(m)
    IN  IF dom < 10 THEN Year \o TwoDigits(Months[m].number) \o "-" \o Digit(dom)
        ELSE IsoText(d)

RECURSIVE TextLeq(_, _)
\* SQLite's BINARY collation on TEXT: bytewise, a proper prefix is smaller
TextLeq(a, b) ==
    IF a = "" THEN TRUE
    ELSE IF b = "" THEN FALSE
    ELSE IF Head(a) = Head(b) THEN TextLeq(Tail(a), Tail(b))
    ELSE CharCode(Head(a)) < CharCode(Head(b))

RECURSIVE ParseInt(_, _)
ParseInt(s, acc) ==
    IF s = "" THEN acc ELSE ParseInt(Tail(s), 10 * acc + DigitValue(Head(s)))

\* pandas parse_dates=['date'] on a key of health_metrics: the calendar day
\* of a text "YYYY-MM-D" or "YYYY-MM-DD"
ParseDate(text) ==
    LET number == ParseInt(SubSeq(text, Len(Year) + 1, Len(Year) + 2), 0)
        m == CHOOSE i \in 1..Len(Months) : Months[i].number = number
    IN  DaysBefore(m) + ParseInt(SubSeq(text, Len(Year) + 4, Len(text)), 0)

DayNames == <<"Wednesday", "Thursday", "Friday", "Saturday", "Sunday", "Monday", "Tuesday">>

\* DatetimeIndex.day_name(); 2025-10-01 is a Wednesday
DayName(d) == DayNames[((d - 1) % 7) + 1]

RECURSIVE SortedTexts(_)
\* the keys of a set of texts in ascending BINARY order
SortedTexts(S) ==
    IF S = {} THEN <<>>
    ELSE LET m == CHOOSE x \in S : \A y \in S : TextLeq(x, y)
         IN  <<m>> \o SortedTexts(S \ {m})

-----------------------------------------------------------------------------
(* Text helpers: str.replace, str.lower and the 'in' test of Python strings *)

RECURSIVE Replace(_, _, _)
\* s.replace(old, new) for a one-character old
Replace(s, old, new) ==
    IF s = "" THEN ""
    ELSE (IF Head(s) = old THEN new ELSE Head(s)) \o Replace(Tail(s), old, new)

RECURSIVE Contains(_, _)
\* sub in s
Contains(s, sub) ==
    IF Len(sub) > Len(s) THEN FALSE
    ELSE IF SubSeq(s, 1, Len(sub)) = sub THEN TRUE
    ELSE Contains(Tail(s), sub)

StartsWith(s, prefix) ==
    Len(prefix) <= Len(s) /\ SubSeq(s, 1, Len(prefix)) = prefix

LowerChar(c) ==
    IF IndexIn(UpperLetters, c, 1) > 0
    THEN SubSeq(LowerLetters, IndexIn(UpperLetters, c, 1), IndexIn(UpperLetters, c, 1))
    ELSE c

RECURSIVE Lower(_)
Lower(s) == IF s = "" THEN "" ELSE LowerChar(Head(s)) \o Lower(Tail(s))

\* Series.str.contains(pat, case=False) for a plain-text pattern
ContainsNoCase(s, pat) == Contains(Lower(s), Lower(pat))

-----------------------------------------------------------------------------
(* The data store (core/database_manager.py) *)

HealthCols ==
    <<"sleep_score", "resting_hr", "body_battery", "pulse_ox", "respiration",
      "sleep_duration_seconds", "avg_stress">>

HealthColSet == {HealthCols[i] : i \in 1..Len(HealthCols)}

NullHealthRow == [c \in HealthColSet |-> NaN]

\* the category each tag was given (tags.category_name; "" is NULL)
TagCategory == [math |-> "STEM", art |-> ""]

TagNames == DOMAIN TagCategory

EmptyStore ==
    [tags |-> TagNames,
     sessions |-> EmptyBag,
     health |-> <<>>,
     activities |-> {},
     factors |-> <<>>,
     log |-> <<>>,
     log_seq |-> 0]

NoCall == [op |-> "none"]

NoFrame == [index |-> <<>>, columns |-> <<>>, cols |-> <<>>]

NoResult == [kind |-> "none"]

\* what the charts area shows: nothing after _clear_chart_frames, or what
\* finish drew, with the request token finish was made for
Blank == [token |-> 0, shows |-> "nothing"]

\* the analytics tab before its first update_charts: no _bg_compute_token
\* attribute (getattr answers 0), no overlay, and no callback scheduled
NoTab ==
    [_first_update_done |-> FALSE,
     _bg_compute_token |-> 0,
     _loading_overlay |-> FALSE,
     screen |-> Blank,
     after |-> {}]

\* no engine call is in progress: the last result was handed to the caller
Idle == call = NoCall

\* a store operation leaves no engine result behind
Forget == Idle /\ UNCHANGED <<call, frame, result, tab>>

\* add_session: INSERT INTO sessions; the tag is one the tag list offers
add_session(tag, day, dur) ==
    /\ tag \in store.tags
    /\ BagCardinality(store.sessions) < MaxSessions
    /\ store' = [store EXCEPT
                   !.sessions = @ (+) SetToBag({[tag |-> tag, day |-> day, dur |-> dur]})]
    /\ Forget

\* delete_tag: DELETE FROM tags; the tag's sessions stay in the sessions table
delete_tag(tag) ==
    /\ tag \in store.tags
    /\ store' = [store EXCEPT !.tags = @ \ {tag}]
    /\ Forget

\* add_or_replace_health_metric: INSERT OR REPLACE on the primary key `date`
add_or_replace_health_metric(date, row) ==
    /\ store' = [store EXCEPT
                   !.health = [k \in DOMAIN @ \cup {date} |->
                                 IF k = date THEN row ELSE @[k]]]
    /\ Forget

\* add_manual_sleep_entry: UPDATE the row whose key is exactly date_str,
\* else INSERT a row that has only the sleep duration
add_manual_sleep_entry(date_str, duration_seconds) ==
    /\ store' = [store EXCEPT
                   !.health = [k \in DOMAIN @ \cup {date_str} |->
                                 IF k # date_str THEN @[k]
                                 ELSE [(IF date_str \in DOMAIN @ THEN @[k] ELSE NullHealthRow)
                                          EXCEPT !["sleep_duration_seconds"] =
                                                     Num(duration_seconds)]]]
    /\ Forget

\* add_activity: INSERT OR IGNORE on UNIQUE(start_time); a row whose
\* start_time is taken is not written
add_activity(st, activity_type, day, hour, duration_seconds, distance, calories) ==
    IF \E a \in st.activities : a.day = day /\ a.hour = hour THEN st
    ELSE [st EXCEPT !.activities =
             @ \cup {[type |-> activity_type, day |-> day, hour |-> hour,
                      dur |-> duration_seconds, dist |-> distance,
                      cal |-> calories]}]

\* set_factor_override: INSERT OR REPLACE on UNIQUE(factor_name, date); the
\* row gets the next AUTOINCREMENT id, a replaced row loses its own
set_factor_override(st, factor_name, day, value) ==
    [st EXCEPT
        !.log = [k \in DOMAIN @ \cup {<<factor_name, day>>} |->
                   IF k = <<factor_name, day>>
                   THEN [value |-> value, id |-> st.log_seq + 1]
                   ELSE @[k]],
        !.log_seq = @ + 1]

\* add_custom_factor: INSERT INTO custom_factors (name, start_date), then the
\* first log row with value 1; a name that exists raises IntegrityError and
\* nothing is written
add_custom_factor(st, name, start_date) ==
    IF name \in DOMAIN st.factors THEN st
    ELSE set_factor_override(
             [st EXCEPT !.factors = [n \in DOMAIN @ \cup {name} |->
                                       IF n = name THEN start_date ELSE @[n]]],
             name, start_date, 1)

\* delete_custom_factor: DELETE FROM custom_factors. No connection turns
\* PRAGMA foreign_keys on, so ON DELETE CASCADE removes no log row
delete_custom_factor(st, name) ==
    [st EXCEPT !.factors = [n \in DOMAIN @ \ {name} |-> @[n]]]

\* get_factor_status_for_date: <<>> (None) for an unknown factor, a date
\* before its start date or a factor with no row up to the date, else the
\* value of the last row: ORDER BY date DESC LIMIT 1
get_factor_status_for_date(st, factor_name, day) ==
    LET upTo == {k \in DOMAIN st.log : k[1] = factor_name /\ k[2] <= day}
    IN  IF factor_name \notin DOMAIN st.factors THEN <<>>
        ELSE IF day < st.factors[factor_name] THEN <<>>
        ELSE IF upTo = {} THEN <<>>
        ELSE <<st.log[CHOOSE k \in upTo : \A j \in upTo : j[2] <= k[2]].value>>

\* CustomFactorsManager.toggle_day_override: a taken day becomes missed (0),
\* any other day becomes taken (1)
toggle_day_override(st, selected_factor, day_date) ==
    set_factor_override(st, selected_factor, day_date,
        IF get_factor_status_for_date(st, selected_factor, day_date) = <<1>>
        THEN 0 ELSE 1)

-----------------------------------------------------------------------------
(* Feature Assembler: prepare_daily_features *)

SecondsPerMinute == 60

SecondsPerHour == 3600

\* pd.date_range(start, end, freq='D'): empty when end < start
DateRange(start, end) == [i \in 1..(end - start + 1) |-> start + i - 1]

\* the WHERE clause the callers build: the queried range, and the tag's
\* category when a category filter is selected ("" selects every category);
\* the JOIN on tags drops the sessions whose tag is no longer in `tags`
SessionMatches(st, s, start, end, category) ==
    /\ s.tag \in st.tags
    /\ start <= s.day /\ s.day <= end
    /\ category = "" \/ TagCategory[s.tag] = category

RECURSIVE SumDurations(_, _)
\* SUM(s.duration_seconds) over a set of distinct session rows of a bag
SumDurations(S, bag) ==
    IF S = {} THEN 0
    ELSE LET s == CHOOSE x \in S : TRUE
         IN  s.dur * CopiesIn(s, bag) + SumDurations(S \ {s}, bag)

\* study_query: one row per date(start_time) that has a matching session
StudyRows(st, start, end, category, d) ==
    {s \in BagToSet(st.sessions) :
        s.day = d /\ SessionMatches(st, s, start, end, category)}

\* df['total_study_minutes'] = study_data['total_study_seconds'] / 60
StudyMinutes(st, start, end, category, d) ==
    LET rows == StudyRows(st, start, end, category, d)
    IN  IF rows = {} THEN NaN
        ELSE Rat(SumDurations(rows, st.sessions), SecondsPerMinute)

\* db.get_earliest_session_date(): the date of the earliest session of the
\* whole sessions table, <<>> (None) when there is no session
get_earliest_session_date(st) ==
    IF BagToSet(st.sessions) = {} THEN <<>>
    ELSE <<CHOOSE d \in {s.day : s \in BagToSet(st.sessions)} :
              \A s \in BagToSet(st.sessions) : d <= s.day>>

\* variant of FillAfterFirst whose mask leaves the earliest date itself out
FillAfterFirst_StrictlyAfter(cell, d, earliest) ==
    IF earliest # <<>> /\ d > earliest[1] /\ IsNa(cell) THEN Zero ELSE cell

\* lines 88-91: on and after the earliest session date a missing total is 0
FillAfterFirst(cell, d, earliest) ==
    IF earliest # <<>> /\ d >= earliest[1] /\ IsNa(cell) THEN Zero ELSE cell

\* health_query: WHERE date BETWEEN ? AND ?, a comparison of TEXT
HealthKeys(st, start, end) ==
    {k \in DOMAIN st.health :
        TextLeq(IsoText(start), k) /\ TextLeq(k, IsoText(end))}

RECURSIVE JoinHealth(_, _)
\* df.join(health_data): a left join on the parsed date. A date with no
\* health row keeps one row (key ""); a date with several keeps one row each.
JoinHealth(days, keys) ==
    IF days = <<>> THEN <<>>
    ELSE LET d == Head(days)
             m == SortedTexts({k \in keys : ParseDate(k) = d})
         IN  (IF m = <<>> THEN <<[day |-> d, key |-> ""]>>
              ELSE [i \in 1..Len(m) |-> [day |-> d, key |-> m[i]]])
             \o JoinHealth(Tail(days), keys)

HealthCell(st, key, col) == IF key = "" THEN NaN ELSE st.health[key][col]

ActivityCols ==
    <<"running_minutes", "distance", "activity_count", "breathwork_sessions",
      "total_activity_minutes", "total_calories", "avg_activity_duration_minutes">>

ActivityColSet == {ActivityCols[i] : i \in 1..Len(ActivityCols)}

\* activity_query: WHERE date(start_time) BETWEEN ? AND ?
ActivityData(st, start, end) ==
    {a \in st.activities : start <= a.day /\ a.day <= end}

\* variant of ActivityColumns that creates the columns for an empty result
ActivityColumns_Always(acts) == ActivityCols

\* line 113: the activity columns are created only when the query returned
\* a row
ActivityColumns(acts) == IF acts = {} THEN <<>> ELSE ActivityCols

RECURSIVE SumField(_, _)
SumField(S, f) ==
    IF S = {} THEN 0
    ELSE LET a == CHOOSE x \in S : TRUE IN a[f] + SumField(S \ {a}, f)

RECURSIVE SumCellSet(_, _)
\* groupby(...).sum() of a nullable column: NULLs are skipped
SumCellSet(S, f) ==
    IF S = {} THEN Zero
    ELSE LET a == CHOOSE x \in S : TRUE
         IN  IF IsNa(a[f]) THEN SumCellSet(S \ {a}, f)
             ELSE RatAdd(a[f], SumCellSet(S \ {a}, f))

\* lines 113-130: the per-day aggregates; a day that has no row of the
\* group is NaN after the assignment aligns the aggregate on the index
ActivityCell(acts, col, d) ==
    LET A == {a \in acts : a.day = d}
        R == {a \in A : ContainsNoCase(a.type, "Running")}
        B == {a \in A : ContainsNoCase(a.type, "Breathwork")}
    IN  CASE col = "running_minutes" ->
                 IF R = {} THEN NaN ELSE Rat(SumField(R, "dur"), SecondsPerMinute)
          [] col = "distance" ->
                 IF A = {} THEN NaN ELSE SumCellSet(A, "dist")
          [] col = "activity_count" ->
                 IF A = {} THEN NaN ELSE Num(Cardinality(A))
          [] col = "breathwork_sessions" ->
                 IF B = {} THEN NaN ELSE Num(Cardinality(B))
          [] col = "total_activity_minutes" ->
                 IF A = {} THEN NaN ELSE Rat(SumField(A, "dur"), SecondsPerMinute)
          [] col = "total_calories" ->
                 \* the query selects no `calories` column: line 128
                 Zero
          [] col = "avg_activity_duration_minutes" ->
                 IF A = {} THEN NaN
                 ELSE Rat(SumField(A, "dur"), Cardinality(A) * SecondsPerMinute)

CUSTOM_FACTOR_PREFIX == "factor_"

\* line 135: col_name = f"factor_{factor_name.replace(' ', '_')}"
FactorColName(name) == CUSTOM_FACTOR_PREFIX \o Replace(name, " ", "_")

\* get_custom_factors: SELECT name FROM custom_factors ORDER BY name
get_custom_factors(st) == SortedTexts(DOMAIN st.factors)

\* overrides_query: the log rows of one factor, whatever their date. The
\* query has no ORDER BY; SQLite answers WHERE factor_name = ? through the
\* index of UNIQUE(factor_name, date), so the rows come in date order
Overrides(st, name) ==
    LET keys == {k \in DOMAIN st.log : k[1] = name}
    IN  [j \in 1..Cardinality(keys) |->
           LET k == CHOOSE x \in keys :
                       Cardinality({y \in keys : y[2] < x[2]}) = j - 1
           IN  [day |-> k[2], value |-> st.log[k].value]]

\* lines 140-144: reindex(date_range, method='ffill') pads each date with
\* the last row at or before it, fillna(0) fills the dates before the first
\* row; a factor with no log row is 0
FactorCell(st, name, d) ==
    LET overrides == Overrides(st, name)
        before == {j \in 1..Len(overrides) : overrides[j].day <= d}
    IN  IF overrides = <<>> THEN Zero
        ELSE IF before = {} THEN Zero
        ELSE Num(overrides[CHOOSE j \in before : \A i \in before : i <= j].value)

\* the factor whose values a factor column ends up with: the loop assigns
\* df[col_name] once per factor, in name order, so the last one stays
FactorOfCol(st, col) ==
    LET names == get_custom_factors(st)
        hits == {i \in 1..Len(names) : FactorColName(names[i]) = col}
    IN  names[CHOOSE i \in hits : \A j \in hits : j <= i]

RECURSIVE Distinct(_)
\* the elements of a sequence, each at its first position
Distinct(q) ==
    IF q = <<>> THEN <<>>
    ELSE LET front == Distinct(SubSeq(q, 1, Len(q) - 1))
             last == q[Len(q)]
         IN  IF \E i \in 1..Len(front) : front[i] = last THEN front
             ELSE Append(front, last)

\* the factor columns in the order the loop creates them
FactorColumns(st) ==
    LET names == get_custom_factors(st)
    IN  Distinct([i \in 1..Len(names) |-> FactorColName(names[i])])

TARGET_VARIABLE == "total_study_minutes"

\* a numeric column divided by a constant; NaN stays NaN
DivCell(c, k) == IF IsNa(c) THEN NaN ELSE RatDiv(c, k)

\* columns in the order the function creates them; the day_of_week column
\* (line 147) is index.day_name(), kept as DayName of the row's index
prepare_daily_features(st, start, end, category) ==
    LET rows == JoinHealth(DateRange(start, end), HealthKeys(st, start, end))
        earliest == get_earliest_session_date(st)
        acts == ActivityData(st, start, end)
        columns == <<TARGET_VARIABLE>> \o HealthCols \o ActivityColumns(acts)
                     \o FactorColumns(st) \o <<"sleep_duration_hours">>
        Cell(c, r) ==
            IF c = TARGET_VARIABLE
            THEN FillAfterFirst(StudyMinutes(st, start, end, category, r.day),
                                r.day, earliest)
            ELSE IF c \in HealthColSet THEN HealthCell(st, r.key, c)
            ELSE IF c \in ActivityColSet THEN ActivityCell(acts, c, r.day)
            ELSE IF c = "sleep_duration_hours"
                 THEN DivCell(HealthCell(st, r.key, "sleep_duration_seconds"),
                              SecondsPerHour)
            ELSE FactorCell(st, FactorOfCol(st, c), r.day)
    IN  [index |-> [i \in 1..Len(rows) |-> rows[i].day],
         columns |-> columns,
         cols |-> [c \in {columns[i] : i \in 1..Len(columns)} |->
                     [i \in 1..Len(rows) |-> Cell(c, rows[i])]]]

-----------------------------------------------------------------------------
(* Model Data Preparer: _get_available_features, _prepare_model_data *)

POTENTIAL_FEATURE_COLS ==
    <<"sleep_score", "avg_stress", "body_battery", "sleep_duration_seconds",
      "resting_hr", "pulse_ox", "respiration",
      "running_minutes", "distance", "activity_count", "breathwork_sessions",
      "total_activity_minutes", "total_calories", "avg_activity_duration_minutes">>

DAYS_OF_WEEK == <<"Mon", "Tue", "Wed", "Thu", "Fri", "Sat", "Sun">>

\* line 287: a feature needs at least this many non-null values
AvailabilityMinimum == 10

\* line 309: a daily modeling table needs at least this many rows
DailyRowMinimum == 10

SeqToSet(q) == {q[i] : i \in 1..Len(q)}

\* df.iloc[keep]: the rows at the positions of keep, every column kept
TakeRows(df, keep) ==
    [index |-> [i \in 1..Len(keep) |-> df.index[keep[i]]],
     columns |-> df.columns,
     cols |-> [c \in DOMAIN df.cols |->
                 [i \in 1..Len(keep) |-> df.cols[c][keep[i]]]]]

\* df[names]: the named columns, in the order of names
SelectColumns(df, names) ==
    [index |-> df.index,
     columns |-> names,
     cols |-> [c \in SeqToSet(names) |-> df.cols[c]]]

\* Series.fillna(value)
FillNa(cs, value) == [i \in 1..Len(cs) |-> IF IsNa(cs[i]) THEN value ELSE cs[i]]

\* variant of DropNa that looks at the first named column only
DropNa_FirstOnly(df, names) ==
    TakeRows(df, SelectSeq([i \in 1..Len(df.index) |-> i],
                           LAMBDA i : NotNa(df.cols[names[1]][i])))

\* df.dropna(subset=names): the rows that miss none of the named columns
DropNa(df, names) ==
    TakeRows(df, SelectSeq([i \in 1..Len(df.index) |-> i],
                           LAMBDA i : \A c \in SeqToSet(names) : NotNa(df.cols[c][i])))

\* variant of _get_available_features that asks for more than the minimum
_get_available_features_Above(df) ==
    LET custom == SelectSeq(df.columns, LAMBDA c : StartsWith(c, CUSTOM_FACTOR_PREFIX))
    IN  SelectSeq(POTENTIAL_FEATURE_COLS \o custom,
                  LAMBDA f : /\ f \in DOMAIN df.cols
                             /\ CountNotNa(df.cols[f]) > AvailabilityMinimum)

\* lines 282-287
_get_available_features(df) ==
    LET custom == SelectSeq(df.columns, LAMBDA c : StartsWith(c, CUSTOM_FACTOR_PREFIX))
    IN  SelectSeq(POTENTIAL_FEATURE_COLS \o custom,
                  LAMBDA f : /\ f \in DOMAIN df.cols
                             /\ CountNotNa(df.cols[f]) >= AvailabilityMinimum)

\* a result dictionary that carries only an error message
ErrorDict(message) == [kind |-> "dict", keys |-> {"error"}, error |-> message]

NoFeatureMessage ==
    "No single factor had enough data points (min 10) in this period to run an analysis."

NotEnoughDaysMessage(data_method) ==
    "Not enough overlapping data for a '" \o data_method
        \o "' analysis. Need at least 10 complete days."

\* variant of ImputeFeatures that fills the target with its mean as well
ImputeFeatures_All(df, available_features) ==
    LET model_df == SelectColumns(df, <<TARGET_VARIABLE>> \o available_features)
    IN  [model_df EXCEPT !.cols =
            [c \in DOMAIN @ |-> FillNa(@[c], MeanCells(@[c]))]]

\* lines 298-303 and 257-262: the required columns with every feature's gaps
\* filled by the feature's mean, then the rows without a target dropped
ImputeFeatures(df, available_features) ==
    LET model_df == SelectColumns(df, <<TARGET_VARIABLE>> \o available_features)
        filled == [model_df EXCEPT !.cols =
                     [c \in DOMAIN @ |->
                        IF c = TARGET_VARIABLE THEN @[c]
                        ELSE FillNa(@[c], MeanCells(@[c]))]]
    IN  DropNa(filled, <<TARGET_VARIABLE>>)

\* variant of _prepare_model_data whose gate also refuses a table of exactly
\* the minimum
_prepare_model_data_AtMost(df, data_method) ==
    LET available_features == _get_available_features(df)
        model_df == IF data_method = "Imputed"
                    THEN ImputeFeatures(df, available_features)
                    ELSE DropNa(df, <<TARGET_VARIABLE>> \o available_features)
    IN  IF available_features = <<>> THEN [error |-> ErrorDict(NoFeatureMessage)]
        ELSE IF Len(model_df.index) <= DailyRowMinimum
             THEN [error |-> ErrorDict(NotEnoughDaysMessage(data_method))]
        ELSE [model_df |-> model_df, available_features |-> available_features]

\* lines 290-313: [error] for (error dict, None), else the table and the
\* feature list
_prepare_model_data(df, data_method) ==
    LET available_features == _get_available_features(df)
        model_df == IF data_method = "Imputed"
                    THEN ImputeFeatures(df, available_features)
                    ELSE DropNa(df, <<TARGET_VARIABLE>> \o available_features)
    IN  IF available_features = <<>> THEN [error |-> ErrorDict(NoFeatureMessage)]
        ELSE IF Len(model_df.index) < DailyRowMinimum
             THEN [error |-> ErrorDict(NotEnoughDaysMessage(data_method))]
        ELSE [model_df |-> model_df, available_features |-> available_features]

-----------------------------------------------------------------------------
(* Frames as arguments: what a call leaves in the frame its caller passed *)

\* a frame passed to a function: the caller's frame, the frame the
\* parameter is bound to, and whether the two are one object
Passed(df) == [caller |-> df, local |-> df, shared |-> TRUE]

\* name = df.copy(), df[cols].copy(), df.dropna(...), df[mask]: the name is
\* bound to a new frame
Rebind(p, value) == [caller |-> p.caller, local |-> value, shared |-> FALSE]

\* name.index = index: written to the object the name is bound to
SetIndex(p, index) ==
    [caller |-> IF p.shared THEN [p.caller EXCEPT !.index = index] ELSE p.caller,
     local |-> [p.local EXCEPT !.index = index],
     shared |-> p.shared]

\* variant of SetColumn for a copy that is a view of the caller's frame
SetColumn_Through(p, c, cells) ==
    [caller |-> [p.caller EXCEPT !.cols[c] = cells],
     local |-> [p.local EXCEPT !.cols[c] = cells],
     shared |-> p.shared]

\* name[c] = cells, for a column the frame has
SetColumn(p, c, cells) ==
    [caller |-> IF p.shared THEN [p.caller EXCEPT !.cols[c] = cells] ELSE p.caller,
     local |-> [p.local EXCEPT !.cols[c] = cells],
     shared |-> p.shared]

\* lines 174-176 and 192 of compute_rolling_features: df = df.copy(), then
\* the index of the copy is set and df is bound to the concatenation.
\* pd.to_datetime returns the DatetimeIndex it is given, and every frame of
\* the engine is indexed by pd.date_range (line 72) or by resample (232)
compute_rolling_features_df(df) ==
    SetIndex(Rebind(Passed(df), df), df.index).caller

\* line 461 of run_weekly_efficiency_analysis: df.index is assigned on the
\* frame of the caller; weekly_df (lines 463-478) is a new frame
run_weekly_efficiency_analysis_df(df) ==
    SetIndex(Passed(df), df.index).caller

\* lines 298-307 of _prepare_model_data: model_df is a copy of the required
\* columns whose features are filled one by one, or the frame dropna returns
_prepare_model_data_df(df, data_method) ==
    LET available_features == _get_available_features(df)
        RECURSIVE Filled(_, _)
        Filled(p, k) ==
            IF k > Len(available_features) THEN p
            ELSE LET col == available_features[k]
                 IN  Filled(SetColumn(p, col, FillNa(p.local.cols[col],
                                                     MeanCells(p.local.cols[col]))),
                            k + 1)
    IN  IF available_features = <<>> THEN df
        ELSE IF data_method = "Imputed"
             THEN Filled(Rebind(Passed(df),
                                SelectColumns(df, <<TARGET_VARIABLE>> \o available_features)),
                         1).caller
        ELSE Rebind(Passed(df),
                    DropNa(df, <<TARGET_VARIABLE>> \o available_features)).caller

\* lines 316-321 of _prepare_model_matrices, which every model runner calls
\* first: X is a copy of the feature columns, joined with the dummies
_prepare_model_matrices_df(model_df, available_features) ==
    Rebind(Passed(model_df), SelectColumns(model_df, available_features)).caller

-----------------------------------------------------------------------------
(* Regression families on a modeling table *)

\* lines 316-323: the names of the columns of X and its number of rows;
\* get_dummies(drop_first=True) makes one column per day name of the table,
\* in sorted order, without the first
_prepare_model_matrices(model_df, available_features) ==
    LET days == SortedTexts({DayName(model_df.index[i]) : i \in 1..Len(model_df.index)})
    IN  [columns |-> available_features \o (IF days = <<>> THEN <<>> ELSE Tail(days)),
         rows |-> Len(model_df.index)]

RECURSIVE ReplaceText(_, _, _)
\* s.replace(old, new) for a non-empty text old
ReplaceText(s, old, new) ==
    IF Len(s) < Len(old) THEN s
    ELSE IF SubSeq(s, 1, Len(old)) = old
         THEN new \o ReplaceText(SubSeq(s, Len(old) + 1, Len(s)), old, new)
    ELSE Head(s) \o ReplaceText(Tail(s), old, new)

IsLetter(c) == IndexIn(UpperLetters, c, 1) > 0 \/ IndexIn(LowerLetters, c, 1) > 0

UpperChar(c) ==
    IF IndexIn(LowerLetters, c, 1) > 0
    THEN SubSeq(UpperLetters, IndexIn(LowerLetters, c, 1), IndexIn(LowerLetters, c, 1))
    ELSE c

RECURSIVE TitleFrom(_, _)
\* str.title(): a letter that follows a letter is lowered, any other raised
TitleFrom(s, afterLetter) ==
    IF s = "" THEN ""
    ELSE (IF afterLetter THEN LowerChar(Head(s)) ELSE UpperChar(Head(s)))
         \o TitleFrom(Tail(s), IsLetter(Head(s)))

\* lines 326-328
_get_display_name(factor) ==
    TitleFrom(Replace(ReplaceText(factor, CUSTOM_FACTOR_PREFIX, ""), "_", " "), FALSE)

\* variant of _is_day_of_week_feature that knows the working days only
_is_day_of_week_feature_Weekdays(factor_name) ==
    \E i \in 1..5 : Contains(factor_name, DAYS_OF_WEEK[i])

\* lines 331-333
_is_day_of_week_feature(factor_name) ==
    \E i \in 1..Len(DAYS_OF_WEEK) : Contains(factor_name, DAYS_OF_WEEK[i])

DisplayNames(factors) == [i \in 1..Len(factors) |-> _get_display_name(factors[i])]

\* what a solver call can do: raise, or return with every coefficient
\* significant (non-zero), or with none
SolverOutcomes == {"raises", "all", "none"}

\* an exception that leaves the entry point; fit is the solver call it left
Raised(fit) == [kind |-> "raised", fit |-> fit]

\* lines 336-354
run_standard_ols_analysis(model_df, available_features, outcome) ==
    LET X == _prepare_model_matrices(model_df, available_features)
        fit == [rows |-> X.rows, columns |-> <<"const">> \o X.columns,
                raised |-> outcome = "raises"]
        shown == SelectSeq(fit.columns,
                           LAMBDA factor : ~(\/ Lower(factor) = "const"
                                             \/ _is_day_of_week_feature(factor)))
    IN  IF fit.raised THEN Raised(fit)
        ELSE [kind |-> "dict",
              keys |-> {"model_type", "model_summary", "significant_factors",
                        "insignificant_factors"},
              model_type |-> "Standard",
              fit |-> fit,
              significant_factors |->
                  IF outcome = "all" THEN DisplayNames(shown) ELSE <<>>,
              insignificant_factors |->
                  IF outcome = "all" THEN <<>> ELSE DisplayNames(shown)]

\* lines 357-382; StandardScaler raises on a matrix without a column
run_lasso_analysis(model_df, available_features, outcome) ==
    LET X == _prepare_model_matrices(model_df, available_features)
        fit == [rows |-> X.rows, columns |-> X.columns,
                raised |-> outcome = "raises" \/ X.columns = <<>>]
        shown == SelectSeq(fit.columns,
                           LAMBDA factor_name : ~_is_day_of_week_feature(factor_name))
    IN  IF fit.raised THEN Raised(fit)
        ELSE [kind |-> "dict",
              keys |-> {"model_type", "selected_factors", "eliminated_factors",
                        "alpha"},
              model_type |-> "Lasso",
              fit |-> fit,
              selected_factors |->
                  IF outcome = "all" THEN DisplayNames(shown) ELSE <<>>,
              eliminated_factors |->
                  IF outcome = "all" THEN <<>> ELSE DisplayNames(shown)]

\* lines 385-432. X_numeric (line 388) is X: its feature columns are floats
\* and its dummies are made with dtype=int (line 319), so select_dtypes
\* keeps every column, and the components are fitted on X with its dummies.
\* PCA(n_components=0.95) keeps at most one component per column; the
\* loadings have a row per column of X_numeric, and the insight of a
\* significant component names the three columns of largest loading, which
\* the model keeps as the columns they are taken from
run_pca_analysis(model_df, available_features, outcome) ==
    LET X == _prepare_model_matrices(model_df, available_features)
        fit == [rows |-> X.rows, columns |-> X.columns,
                raised |-> outcome = "raises" \/ X.columns = <<>>]
    IN  IF fit.raised THEN Raised(fit)
        ELSE [kind |-> "dict",
              keys |-> {"model_type", "model_summary", "explained_variance",
                        "component_loadings", "automated_analysis"},
              model_type |-> "PCA",
              fit |-> fit,
              X_final |-> <<"const">> \o [i \in 1..Len(X.columns) |-> "PC_" \o IntText(i)],
              component_loadings |-> X.columns,
              automated_analysis |->
                  IF outcome = "all" THEN DisplayNames(X.columns) ELSE <<>>]

InvalidModelMessage == "Invalid model type selected."

\* lines 449-456 and 272-279: the dispatch on model_type
RunSelectedModel(model_df, available_features, model_type, outcome) ==
    CASE model_type = "Standard" ->
             run_standard_ols_analysis(model_df, available_features, outcome)
      [] model_type = "Lasso" ->
             run_lasso_analysis(model_df, available_features, outcome)
      [] model_type = "PCA" ->
             run_pca_analysis(model_df, available_features, outcome)
      [] OTHER -> ErrorDict(InvalidModelMessage)

\* variant of run_analysis that looks at model_type before the data
run_analysis_TypeFirst(prepared, model_type, outcome) ==
    IF model_type \notin {"Standard", "Lasso", "PCA"} THEN ErrorDict(InvalidModelMessage)
    ELSE IF "error" \in DOMAIN prepared THEN prepared.error
    ELSE RunSelectedModel(prepared.model_df, prepared.available_features,
                          model_type, outcome)

\* lines 435-456, from the value _prepare_model_data returned at line 444
run_analysis(prepared, model_type, outcome) ==
    IF "error" \in DOMAIN prepared THEN prepared.error
    ELSE RunSelectedModel(prepared.model_df, prepared.available_features,
                          model_type, outcome)

-----------------------------------------------------------------------------
(* Rolling features: compute_rolling_features *)

Min(a, b) == IF a <= b THEN a ELSE b

Max(a, b) == IF a >= b THEN a ELSE b

\* the columns the function rolls, line 182
RollableCols ==
    <<"sleep_score", "resting_hr", "body_battery", "avg_stress",
      "total_study_minutes", "running_minutes", "distance",
      "total_activity_minutes", "intensity_minutes", "hydration_ml">>

\* variant of RollingWindow whose window holds one row more
RollingWindow_Wider(cs, i, w) == SubSeq(cs, Max(1, i - w), i)

\* df.rolling(window=w): the window of row i is the w rows that end at i,
\* fewer at the start of the frame
RollingWindow(cs, i, w) == SubSeq(cs, Max(1, i - w + 1), i)

\* Series.shift(k): row i takes the value of row i-k, and is NaN when the
\* frame has no row i-k (the first k rows, or the last -k for a negative k)
Shift(cs, k) ==
    [i \in 1..Len(cs) |-> IF i - k \in 1..Len(cs) THEN cs[i - k] ELSE NaN]

\* the statistics of one window: NaN below min_periods observations; the
\* standard deviation (ddof=1) needs two observations and is kept as
\* <<n, d, 2>>, the square root of the sample variance n/d
RollingStat(window, how, min_periods) ==
    LET k == CountNotNa(window)
        Mul(x, y) == Rat(x[1] * y[1], x[2] * y[2])
        Sub(x, y) == RatAdd(x, <<-y[1], y[2]>>)
        sum == SumCells(window)
        squares == SumCells([i \in 1..Len(window) |->
                               IF IsNa(window[i]) THEN NaN
                               ELSE Mul(window[i], window[i])])
        variance == RatDiv(Sub(squares, RatDiv(Mul(sum, sum), k)), k - 1)
    IN  IF k < min_periods THEN NaN
        ELSE CASE how = "mean" -> RatDiv(sum, k)
               [] how = "sum" -> sum
               [] how = "std" -> IF k < 2 THEN NaN
                                 ELSE <<variance[1], variance[2], 2>>

\* lines 167-194: for each window and each rollable column of the frame the
\* columns <col>_roll<w>_mean, _std, _sum and <col>_lag<w>_mean, appended in
\* that order
compute_rolling_features(df, windows, min_periods) ==
    LET present == SelectSeq(RollableCols, LAMBDA c : c \in DOMAIN df.cols)
        n == Len(df.index)
        P == Len(present)
        kinds == <<"mean", "std", "sum", "lag">>
        WindowOf(j) == windows[(j - 1) \div (4 * P) + 1]
        ColOf(j) == present[(((j - 1) \div 4) % P) + 1]
        KindOf(j) == kinds[((j - 1) % 4) + 1]
        NameOf(j) ==
            IF KindOf(j) = "lag"
            THEN ColOf(j) \o "_lag" \o IntText(WindowOf(j)) \o "_mean"
            ELSE ColOf(j) \o "_roll" \o IntText(WindowOf(j)) \o "_" \o KindOf(j)
        Roll(c, w, how) ==
            [i \in 1..n |-> RollingStat(RollingWindow(df.cols[c], i, w), how, min_periods)]
        ValuesOf(j) ==
            IF KindOf(j) = "lag" THEN Shift(Roll(ColOf(j), WindowOf(j), "mean"), WindowOf(j))
            ELSE Roll(ColOf(j), WindowOf(j), KindOf(j))
        new_columns == [j \in 1..(4 * P * Len(windows)) |-> NameOf(j)]
    IN  [index |-> df.index,
         columns |-> df.columns \o new_columns,
         cols |-> [c \in DOMAIN df.cols \cup SeqToSet(new_columns) |->
                     IF c \in DOMAIN df.cols THEN df.cols[c]
                     ELSE ValuesOf(CHOOSE j \in 1..Len(new_columns) : new_columns[j] = c)]]

-----------------------------------------------------------------------------
(* Weekly path: run_weekly_analysis *)

\* line 268: a weekly modeling table needs at least this many rows
WeeklyRowMinimum == 4

DaysPerWeek == 7

\* candidate_aggs, lines 211-223
WeeklyAggregations ==
    <<[column |-> "total_study_minutes", how |-> "sum"],
      [column |-> "sleep_score", how |-> "mean"],
      [column |-> "avg_stress", how |-> "mean"],
      [column |-> "body_battery", how |-> "mean"],
      [column |-> "sleep_duration_hours", how |-> "mean"],
      [column |-> "running_minutes", how |-> "sum"],
      [column |-> "distance", how |-> "sum"],
      [column |-> "total_activity_minutes", how |-> "sum"],
      [column |-> "total_calories", how |-> "sum"],
      [column |-> "hydration_ml", how |-> "mean"],
      [column |-> "intensity_minutes", how |-> "sum"]>>

\* variant of WeekEnd whose weeks end on Saturday
WeekEnd_Saturday(d) == CHOOSE s \in d..(d + DaysPerWeek - 1) : DayName(s) = "Saturday"

\* the label of the W-SUN bin of a day: the Sunday on or after it
WeekEnd(d) == CHOOSE s \in d..(d + DaysPerWeek - 1) : DayName(s) = "Sunday"

\* daily.resample('W-SUN').agg(agg_dict): one row per week from the week of
\* the first row to the week of the last, sums and means skipping NaN
ResampleWeekly(daily, aggs) ==
    LET n == Len(daily.index)
        first == WeekEnd(daily.index[1])
        last == WeekEnd(daily.index[n])
        weeks == [k \in 1..((last - first) \div DaysPerWeek + 1) |->
                    first + DaysPerWeek * (k - 1)]
        rowsOf == [k \in 1..Len(weeks) |->
                     SelectSeq([i \in 1..n |-> i],
                               LAMBDA i : WeekEnd(daily.index[i]) = weeks[k])]
        Cells(c, k) == [j \in 1..Len(rowsOf[k]) |-> daily.cols[c][rowsOf[k][j]]]
    IN  [index |-> weeks,
         columns |-> [i \in 1..Len(aggs) |-> aggs[i].column],
         cols |-> [c \in {aggs[i].column : i \in 1..Len(aggs)} |->
                     LET how == (CHOOSE a \in SeqToSet(aggs) : a.column = c).how
                     IN  [k \in 1..Len(weeks) |->
                            IF how = "sum" THEN SumCells(Cells(c, k))
                            ELSE MeanCells(Cells(c, k))]]]

\* df.dropna(how='all'): the rows that have a value in some column
DropAllNa(df) ==
    TakeRows(df, SelectSeq([i \in 1..Len(df.index) |-> i],
                           LAMBDA i : \E c \in DOMAIN df.cols : NotNa(df.cols[c][i])))

NotEnoughWeeksMessage ==
    "Not enough weekly data for a meaningful analysis (need >=4 weeks)."

\* lines 208-266: the weekly frame, its available features and the weekly
\* modeling table. The daily frame always has the target column, so line 227
\* adds nothing. compute_rolling_features (line 239) is called with
\* windows=(1,2,4), min_periods=1.
WeeklyModelData(daily, data_method) ==
    LET aggs == SelectSeq(WeeklyAggregations, LAMBDA a : a.column \in DOMAIN daily.cols)
        weekly == compute_rolling_features(
                      DropNa(DropAllNa(ResampleWeekly(daily, aggs)), <<TARGET_VARIABLE>>),
                      <<1, 2, 4>>, 1)
        available_features == _get_available_features(weekly)
    IN  [weekly |-> weekly,
         available_features |-> available_features,
         model_df |-> IF data_method = "Imputed"
                      THEN ImputeFeatures(weekly, available_features)
                      ELSE DropNa(weekly, <<TARGET_VARIABLE>> \o available_features)]

\* variant of WeeklyGate that lets a table of three weeks through
WeeklyGate_Three(model_df) == Len(model_df.index) < WeeklyRowMinimum - 1

\* line 268
WeeklyGate(model_df) == Len(model_df.index) < WeeklyRowMinimum

\* lines 197-279, from the tables lines 208-266 prepared
run_weekly_analysis(prepared, model_type, outcome) ==
    IF WeeklyGate(prepared.model_df) THEN ErrorDict(NotEnoughWeeksMessage)
    ELSE RunSelectedModel(prepared.model_df, prepared.available_features,
                          model_type, outcome)

\* lines 463-469
EfficiencyAggregations ==
    <<[column |-> TARGET_VARIABLE, how |-> "sum"],
      [column |-> "sleep_score", how |-> "mean"],
      [column |-> "avg_stress", how |-> "mean"],
      [column |-> "body_battery", how |-> "mean"],
      [column |-> "sleep_duration_hours", how |-> "mean"]>>

\* lines 459-500, on the frame the caller passes: the weeks with study time,
\* the error of line 474 when fewer than 4 are left. The correlation matrix
\* and the insight are texts computed from weekly_df
run_weekly_efficiency_analysis(df) ==
    LET resampled == ResampleWeekly(df, EfficiencyAggregations)
        weekly_df == TakeRows(resampled,
                        SelectSeq([k \in 1..Len(resampled.index) |-> k],
                                  LAMBDA k : RatLt(Zero, resampled.cols[TARGET_VARIABLE][k])))
    IN  IF Len(weekly_df.index) < WeeklyRowMinimum
        THEN ErrorDict("Not enough data for a meaningful weekly analysis. "
                           \o "Need at least 4 full weeks, but found only "
                           \o IntText(Len(weekly_df.index)) \o ".")
        ELSE [kind |-> "dict",
              keys |-> {"model_type", "correlation_matrix", "weekly_data_preview",
                        "insights"},
              model_type |-> "Weekly Efficiency",
              weekly_df |-> weekly_df]

-----------------------------------------------------------------------------
(* Advanced analytics: PLS and the cross-correlation matrix *)

\* lines 618, 620 and 627
PlsMinRows == 15

PlsMinFeatures == 2

PlsMaxComponents == 5

\* the text of the exception a failed fit raises
SolverErrorText == "SVD did not converge"

\* variant of PlsComponents without the cap of five
PlsComponents_NoCap(n_feats, n_rows) == Max(1, Min(n_feats, n_rows - 1))

\* line 629: n_components = max(1, min(5, X.shape[1], X.shape[0]-1))
PlsComponents(n_feats, n_rows) ==
    Max(1, Min(PlsMaxComponents, Min(n_feats, n_rows - 1)))

\* lines 608-667, from the value _prepare_model_data returned at line 613
run_pls_analysis_full(prepared, outcome) ==
    LET n_rows == Len(prepared.model_df.index)
        n_feats == Len(prepared.available_features)
        Y == prepared.model_df.cols[TARGET_VARIABLE]
        n_components == PlsComponents(n_feats, n_rows)
        fit == [rows |-> n_rows, columns |-> prepared.available_features,
                raised |-> outcome = "raises"]
    IN  IF "error" \in DOMAIN prepared THEN prepared.error
        ELSE IF n_rows < PlsMinRows
             THEN ErrorDict("Not enough data for PLS (need >=15 rows, have "
                                \o IntText(n_rows) \o ").")
        ELSE IF n_feats < PlsMinFeatures
             THEN ErrorDict("PLS requires at least 2 feature columns with enough data (have "
                                \o IntText(n_feats) \o ").")
        ELSE IF \A i \in 1..n_rows : Y[i] = Y[1]
             THEN ErrorDict("Study minutes have no variation in this period (all equal). PLS cannot fit.")
        ELSE IF outcome = "raises"
             THEN [kind |-> "dict", keys |-> {"error"}, fit |-> fit,
                   error |-> "PLS fitting failed: " \o SolverErrorText
                                \o ". Rows=" \o IntText(n_rows)
                                \o ", Features=" \o IntText(n_feats)
                                \o ", n_components=" \o IntText(n_components) \o "."]
        ELSE [kind |-> "dict",
              keys |-> {"model_type", "n_components", "coefficients", "vip",
                        "diagnostics"},
              model_type |-> "PLS",
              fit |-> fit,
              n_components |-> n_components,
              diagnostics |-> [n_rows |-> n_rows, n_features |-> n_feats,
                               feature_list |-> prepared.available_features]]

\* feature_list, lines 514-518
CcfFeatureList ==
    <<"sleep_score", "avg_stress", "sleep_duration_hours", "body_battery",
      "resting_hr", "respiration", "intensity_minutes", "hydration_ml",
      "total_activity_minutes", "distance">>

\* lags=range(-7, 8)
CcfLags == [i \in 1..(2 * DaysPerWeek + 1) |-> i - DaysPerWeek - 1]

\* the value a function returns when it ends on `return None`
None == [kind |-> "None"]

\* y.corr(x), Pearson: computed from the rows where both series have a
\* value, NaN when there are fewer than two of them or when one of the two
\* series does not vary over them; the coefficient itself is kept as the
\* pairs <<y, x>> it is computed from
Pearson(y, x) ==
    LET both == SelectSeq([i \in 1..Len(y) |-> i],
                          LAMBDA i : NotNa(y[i]) /\ NotNa(x[i]))
        pairs == [k \in 1..Len(both) |-> <<y[both[k]], x[both[k]]>>]
    IN  IF \/ Len(pairs) < 2
           \/ \A k \in 1..Len(pairs) : pairs[k][1] = pairs[1][1]
           \/ \A k \in 1..Len(pairs) : pairs[k][2] = pairs[1][2]
        THEN NaN
        ELSE <<pairs>>

\* lines 507-534: None, or the matrix with a row per feature and a column
\* per lag
compute_ccf_heatmap_df(daily, lags) ==
    LET y == daily.cols[TARGET_VARIABLE]
        features == SelectSeq(CcfFeatureList, LAMBDA f : f \in DOMAIN daily.cols)
        Cell(f, lag) == LET corr == Pearson(y, Shift(daily.cols[f], lag))
                        IN  IF IsNa(corr) THEN Zero ELSE corr
    IN  IF (\A i \in 1..Len(y) : IsNa(y[i])) \/ features = <<>> THEN None
        ELSE [kind |-> "table", rows |-> features, columns |-> lags,
              cells |-> [f \in SeqToSet(features) |->
                           [j \in 1..Len(lags) |-> Cell(f, lags[j])]]]

-----------------------------------------------------------------------------
(* Advanced analytics: quantile regression, VAR, HMM and the event study *)

\* lines 588, 677 and 723
QuantileMinRows == 20

VarMinRows == 40

HmmMinRows == 50

\* line 681: select_order(7) and min(7, ...)
VarMaxLags == 7

\* quantiles=(0.25, 0.5, 0.75), kept as the texts str(q) gives
Quantiles == <<"0.25", "0.5", "0.75">>

\* what QuantReg(Y, X).fit(q=q) can do at one quantile
FitOutcomes == {"fits", "raises"}

\* variant of FitQuantiles that leaves the loop at the first failure
FitQuantiles_StopAtFailure(quantiles, outcomes) ==
    LET failed == {i \in 1..Len(quantiles) : outcomes[i] = "raises"}
        last == IF failed = {} THEN Len(quantiles)
                ELSE CHOOSE i \in failed : \A j \in failed : i <= j
        done == [i \in 1..last |-> i]
    IN  [coeffs |-> [i \in 1..Len(SelectSeq(done, LAMBDA k : outcomes[k] = "fits")) |->
                        quantiles[SelectSeq(done, LAMBDA k : outcomes[k] = "fits")[i]]],
         summaries |-> [i \in 1..last |->
                          [q |-> quantiles[i],
                           text |-> IF outcomes[i] = "fits" THEN "summary"
                                    ELSE "QuantReg failed at q=" \o quantiles[i]
                                            \o ": " \o SolverErrorText]]]

\* lines 592-601: the loop over the quantiles; coeffs and summaries are
\* dictionaries, kept as the sequences of their keys in insertion order
FitQuantiles(quantiles, outcomes) ==
    LET done == [i \in 1..Len(quantiles) |-> i]
        fitted == SelectSeq(done, LAMBDA k : outcomes[k] = "fits")
    IN  [coeffs |-> [i \in 1..Len(fitted) |-> quantiles[fitted[i]]],
         summaries |-> [i \in 1..Len(quantiles) |->
                          [q |-> quantiles[i],
                           text |-> IF outcomes[i] = "fits" THEN "summary"
                                    ELSE "QuantReg failed at q=" \o quantiles[i]
                                            \o ": " \o SolverErrorText]]]

\* lines 579-605, from the frame of line 583; coeff_df.T has a row per
\* fitted quantile and a column per feature
run_quantile_regression(daily, quantiles, outcomes) ==
    LET cols == SelectSeq(<<"sleep_score", "avg_stress", "sleep_duration_hours",
                            "body_battery">>, LAMBDA c : c \in DOMAIN daily.cols)
        df == DropNa(SelectColumns(daily, cols \o <<TARGET_VARIABLE>>),
                     cols \o <<TARGET_VARIABLE>>)
        fits == FitQuantiles(quantiles, outcomes)
    IN  IF cols = <<>> \/ TARGET_VARIABLE \notin DOMAIN daily.cols
        THEN ErrorDict("Not enough features for quantile regression.")
        ELSE IF Len(df.index) < QuantileMinRows
             THEN ErrorDict("Not enough data for quantile regression (need >=20 rows).")
        ELSE [kind |-> "dict",
              keys |-> {"model_type", "coeff_df", "summaries"},
              model_type |-> "Quantile",
              fit |-> [rows |-> Len(df.index), columns |-> <<"const">> \o cols],
              coeff_df |-> [rows |-> fits.coeffs, columns |-> cols],
              summaries |-> fits.summaries]

\* lines 679-683 with the zero of 'or 1' kept: a selected order of 0 is fitted
selected_lag_ZeroKept(order) ==
    IF order = <<>> THEN 2 ELSE Min(VarMaxLags, Max(0, order[1]))

\* lines 679-683: min(7, max(1, model.select_order(7).aic or 1)), and 2 when
\* the selection raises. order is <<k>> for the lag select_order(7).aic
\* gives and <<>> when the selection raises
selected_lag(order) ==
    IF order = <<>> THEN 2
    ELSE Min(VarMaxLags, Max(1, IF order[1] = 0 THEN 1 ELSE order[1]))

\* lines 670-707, from the frame of line 672. order is <<k>> for the lag
\* select_order(7).aic gives and <<>> when the selection raises, mc is <<b>>
\* for the bands errband_mc draws and <<>> when it raises; an exception of
\* VAR(df).fit leaves the function
run_var_irf(daily, order, outcome, mc) ==
    LET cols == SelectSeq(<<TARGET_VARIABLE, "sleep_score", "avg_stress",
                            "sleep_duration_hours">>,
                          LAMBDA c : c \in DOMAIN daily.cols)
        df == DropNa(SelectColumns(daily, cols), cols)
        fit == [rows |-> Len(df.index), columns |-> cols, lag |-> selected_lag(order),
                raised |-> outcome = "raises"]
        shocks == SelectSeq(cols, LAMBDA shock : shock # TARGET_VARIABLE)
    IN  IF Len(cols) < 2 THEN ErrorDict("Not enough variables for VAR.")
        ELSE IF Len(df.index) < VarMinRows
             THEN ErrorDict("Not enough data for VAR/IRF (need >=40 rows, have "
                                \o IntText(Len(df.index)) \o ").")
        ELSE IF fit.raised THEN Raised(fit)
        ELSE [kind |-> "dict",
              keys |-> {"model_type", "irf", "lag_order"},
              model_type |-> "IRF",
              fit |-> fit,
              lag_order |-> fit.lag,
              irf |-> [j \in 1..Len(shocks) |->
                         IF mc = <<>>
                         THEN [shock |-> shocks[j], columns |-> <<"horizon", "irf">>]
                         ELSE [shock |-> shocks[j],
                               columns |-> <<"horizon", "irf", "lower", "upper">>,
                               bands |-> mc[1]]]]

\* lines 710-739, from the frame of line 718. The states are those of a
\* GaussianHMM seeded with random_state=42; a column without variation is
\* NaN after the standardisation of line 726, and hmm.fit raises on it
run_hmm_states(daily, installed, outcome) ==
    LET cols == SelectSeq(<<TARGET_VARIABLE, "sleep_score", "avg_stress">>,
                          LAMBDA c : c \in DOMAIN daily.cols)
        df == DropNa(SelectColumns(daily, cols), cols)
        flat == \E c \in SeqToSet(cols) : \A i \in 1..Len(df.index) : df.cols[c][i] = df.cols[c][1]
        fit == [rows |-> Len(df.index), columns |-> cols, random_state |-> 42,
                raised |-> outcome = "raises" \/ flat]
    IN  IF ~installed
        THEN ErrorDict("HMM requires 'hmmlearn'. Please install it (added to requirements) and retry.")
        ELSE IF Len(cols) < 2 THEN ErrorDict("Not enough variables for HMM.")
        ELSE IF Len(df.index) < HmmMinRows
             THEN ErrorDict("Not enough data for HMM (need >=50 rows, have "
                                \o IntText(Len(df.index)) \o ").")
        ELSE IF fit.raised THEN Raised(fit)
        ELSE [kind |-> "dict",
              keys |-> {"model_type", "n_states", "state_counts", "state_means"},
              model_type |-> "HMM",
              fit |-> fit,
              n_states |-> 3]

\* lines 537-576, from the frame of line 543: None, or a row per day offset
\* with the mean and the standard error of the target values found at that
\* offset from a shock day
compute_event_study_df(daily, feature, shock, threshold, window, baseline_window) ==
    LET n == Len(daily.index)
        x == daily.cols[feature]
        y == daily.cols[TARGET_VARIABLE]
        base == [i \in 1..n |-> RollingStat(RollingWindow(x, i, baseline_window),
                                            "mean", baseline_window \div 2)]
        IsEvent(i) ==
            /\ NotNa(x[i]) /\ NotNa(base[i])
            /\ IF shock = "drop" THEN RatLeq(RatAdd(x[i], Num(threshold)), base[i])
               ELSE RatLeq(RatAdd(base[i], Num(threshold)), x[i])
        event_indices == SelectSeq([i \in 1..n |-> i], IsEvent)
        offsets == [k \in 1..(2 * window + 2) |-> k - window - 1]
        \* the non-missing target values at offset o of each shock day
        Found(o) ==
            LET hits == SelectSeq(event_indices,
                                  LAMBDA i : \E j \in 1..n :
                                      /\ daily.index[j] = daily.index[i] + o
                                      /\ NotNa(y[j]))
            IN  [k \in 1..Len(hits) |->
                    y[CHOOSE j \in 1..n : daily.index[j] = daily.index[hits[k]] + o]]
        \* df.at[t, ...] is a Series when the frame has two rows dated t, and
        \* `if pd.notna(val)` raises on it
        Ambiguous(t) == Cardinality({j \in 1..n : daily.index[j] = t}) > 1
    IN  IF feature \notin DOMAIN daily.cols \/ TARGET_VARIABLE \notin DOMAIN daily.cols
        THEN None
        ELSE IF event_indices = <<>> THEN None
        ELSE IF \E k \in 1..Len(event_indices), o \in SeqToSet(offsets) :
                    Ambiguous(daily.index[event_indices[k]] + o)
             THEN [kind |-> "raised", error |-> "ValueError"]
        ELSE [kind |-> "table",
              columns |-> <<"day_offset", "mean", "se">>,
              rows |-> [k \in 1..Len(offsets) |->
                          LET arr == Found(offsets[k])
                              sd == RollingStat(arr, "std", 1)
                          IN  [day_offset |-> offsets[k],
                               size |-> Len(arr),
                               mean |-> IF arr = <<>> THEN NaN ELSE MeanCells(arr),
                               se |-> IF arr = <<>> THEN NaN
                                      ELSE IF Len(arr) > 1
                                           THEN <<sd[1], sd[2] * Len(arr), 2>>
                                      ELSE Zero]]]

-----------------------------------------------------------------------------
(* Sample rows the specifications write *)

\* a day as the Garmin importers store it, and a day with fewer metrics
HealthSamples ==
    {[NullHealthRow EXCEPT !["sleep_score"] = Num(80),
                           !["body_battery"] = Num(60),
                           !["sleep_duration_seconds"] = Num(27000),
                           !["avg_stress"] = Num(30)],
     [NullHealthRow EXCEPT !["sleep_score"] = Num(65),
                           !["sleep_duration_seconds"] = Num(0)]}

FullHealthRow == CHOOSE r \in HealthSamples : NotNa(r["avg_stress"])

\* the duration_seconds of a 25-minute session
DurationSamples == {1500}

\* the duration_seconds of a manual sleep entry of 07:30
ManualSleepSamples == {27000}

\* a store whose other three domains hold data already
SeededStore ==
    [EmptyStore EXCEPT
        !.health = [k \in {IsoText(2)} |-> FullHealthRow],
        !.activities = {[type |-> "Trail Running", day |-> 2, hour |-> 7,
                         dur |-> 1800, dist |-> Num(5), cal |-> 300]},
        !.factors = [n \in {"deep work"} |-> 2],
        !.log = [k \in {<<"deep work", 2>>} |-> [value |-> 1, id |-> 1]],
        !.log_seq = 1]

Categories == {"", "STEM"}

-----------------------------------------------------------------------------
(* Engine calls *)

\* a caller assembles the daily frame
PrepareDailyFeatures(start, end, category) ==
    /\ Idle
    /\ call' = [op |-> "prepare_daily_features", start |-> start, end |-> end,
                category |-> category]
    /\ frame' = prepare_daily_features(store, start, end, category)
    /\ result' = [kind |-> "frame"]
    /\ UNCHANGED store

\* the caller takes the result; the engine keeps nothing of it
Return ==
    /\ UNCHANGED tab
    /\ ~Idle
    /\ call' = NoCall /\ frame' = NoFrame /\ result' = NoResult
    /\ UNCHANGED store

-----------------------------------------------------------------------------
(* Spec: sessions and tags are written, any range is assembled *)

Days == 1..MaxDay

Init ==
    /\ store \in {EmptyStore, SeededStore}
    /\ call = NoCall
    /\ frame = NoFrame
    /\ result = NoResult
    /\ tab = NoTab

AddSession == \E tag \in TagNames, day \in Days, dur \in DurationSamples :
                 add_session(tag, day, dur)

DeleteTag == \E tag \in TagNames : delete_tag(tag)

Assemble ==
    /\ UNCHANGED tab
    /\ \E start \in Days, end \in Days, category \in Categories :
                   start <= end /\ PrepareDailyFeatures(start, end, category)

Next == AddSession \/ DeleteTag \/ Assemble \/ Return

Spec == Init /\ [][Next]_vars

-----------------------------------------------------------------------------
(* SpecDates: health rows are written under the date texts the two writers *)
(* can store, and ranges of up to MaxSpan days are assembled                *)

SpanDays == 1..MaxSpan

InitDates ==
    /\ store = EmptyStore
    /\ call = NoCall
    /\ frame = NoFrame
    /\ result = NoResult
    /\ tab = NoTab

\* import_garmin_csv and download_health_stats store strftime('%Y-%m-%d')
ImportHealth == \E d \in SpanDays, row \in HealthSamples :
    /\ Cardinality(DOMAIN store.health \cup {IsoText(d)}) <= MaxHealthRows
    /\ add_or_replace_health_metric(IsoText(d), row)

\* ManualHealthEntryWindow.save_health_data stores the text as typed once
\* datetime.strptime(date_str, '%Y-%m-%d') accepts it
ManualSleepEntry ==
    \E d \in SpanDays, seconds \in ManualSleepSamples :
        \E text \in {IsoText(d), ShortText(d)} :
            /\ Cardinality(DOMAIN store.health \cup {text}) <= MaxHealthRows
            /\ add_manual_sleep_entry(text, seconds)

AssembleSpan ==
    /\ UNCHANGED tab
    /\ \E start \in SpanDays, end \in SpanDays :
                       start <= end /\ PrepareDailyFeatures(start, end, "")

NextDates == ImportHealth \/ ManualSleepEntry \/ AssembleSpan \/ Return

SpecDates == InitDates /\ [][NextDates]_vars

-----------------------------------------------------------------------------
(* SpecModel: the analysis entry points on stores that hold weeks of data   *)

MaxModelDays == 15     \* days of daily health data in a store
MaxWeeks == 11         \* weeks of weekly health data in a store

\* import_garmin_csv: one add_or_replace_health_metric per row of the file
\* that has a sleep score, keyed by strftime('%Y-%m-%d')
import_garmin_csv(st, days) ==
    [st EXCEPT !.health =
        [k \in DOMAIN @ \cup {IsoText(d) : d \in days} |->
            IF \E d \in days : k = IsoText(d) THEN FullHealthRow ELSE @[k]]]

\* the store after a first session on day `first` (0: no session yet)
WithFirstSession(st, first) ==
    IF first = 0 THEN st
    ELSE [st EXCEPT !.sessions =
             SetToBag({[tag |-> "math", day |-> first,
                        dur |-> CHOOSE dur \in DurationSamples : TRUE]})]

\* the last day of the k-th week of the calendar, a Sunday
LastDayOfWeek(k) == WeekEnd(1) + DaysPerWeek * (k - 1)

\* days around the tenth day on which the export has no sleep score
GapDays == {1, DailyRowMinimum}

\* weeks in which the watch was not worn
GapWeeks == {LastDayOfWeek(2), LastDayOfWeek(3)}

\* stores with a health row a day, and stores with a health row a week
ModelStores ==
    {import_garmin_csv(WithFirstSession(base, first), (1..MaxModelDays) \ gaps) :
        base \in {EmptyStore, SeededStore}, first \in 0..2, gaps \in SUBSET GapDays}
    \cup
    {import_garmin_csv(WithFirstSession(EmptyStore, first),
                       {LastDayOfWeek(k) : k \in 1..MaxWeeks} \ gaps) :
        first \in 0..1, gaps \in SUBSET GapWeeks}

InitModel ==
    /\ store \in ModelStores
    /\ call = NoCall
    /\ frame = NoFrame
    /\ result = NoResult
    /\ tab = NoTab

\* the ranges of the daily calls end around the tenth day, or with the data
DailyEnds == {DailyRowMinimum - 1, DailyRowMinimum, DailyRowMinimum + 1, MaxModelDays}

\* the ranges of the weekly calls end with the first, third, fourth, tenth
\* or last week
WeeklyEnds ==
    {LastDayOfWeek(k) :
        k \in {1, WeeklyRowMinimum - 1, WeeklyRowMinimum, AvailabilityMinimum, MaxWeeks}}

DataMethods == {"Strict", "Imputed"}

ModelTypes == {"Standard", "Lasso", "PCA", "Ridge"}

\* an entry point is called with the where clause and parameters that
\* analytics_tab builds without a category, and assembles the daily frame
Assembled(end) ==
    /\ Idle
    /\ frame' = prepare_daily_features(store, 1, end, "")
    /\ UNCHANGED store

Called(op, end, args) == [op |-> op, start |-> 1, end |-> end, category |-> ""] @@ args

GetAvailableFeatures ==
    /\ UNCHANGED tab
    /\ \E end \in DailyEnds :
        /\ Assembled(end)
        /\ call' = Called("_get_available_features", end, <<>>)
        /\ result' = [kind |-> "list", value |-> _get_available_features(frame')]

\* the frames run_analysis holds when it returns: df, the frame it was
\* given and passed to _prepare_model_data, and model_df, which it passed to
\* the runner of the model type
RunAnalysis ==
    /\ UNCHANGED tab
    /\ \E end \in DailyEnds :
        /\ Idle
        /\ \E data_method \in DataMethods :
              \E df \in {prepare_daily_features(store, 1, end, "")} :
                \E prepared \in {_prepare_model_data(df, data_method)} :
                  /\ frame' = _prepare_model_data_df(df, data_method)
                  /\ \E model_type \in ModelTypes, outcome \in SolverOutcomes :
                     /\ call' = Called("run_analysis", end,
                                       [data_method |-> data_method,
                                        model_type |-> model_type,
                                        outcome |-> outcome,
                                        prepared |->
                                           IF "error" \in DOMAIN prepared THEN prepared
                                           ELSE [prepared EXCEPT !.model_df =
                                                   _prepare_model_matrices_df(
                                                       @, prepared.available_features)]])
                     /\ result' = run_analysis(prepared, model_type, outcome)
        /\ UNCHANGED store

RunWeeklyAnalysis ==
    /\ UNCHANGED tab
    /\ \E end \in WeeklyEnds :
        /\ Assembled(end)
        /\ \E data_method \in DataMethods :
              \E prepared \in {WeeklyModelData(frame', data_method)} :
                  \E model_type \in ModelTypes, outcome \in SolverOutcomes :
                     /\ call' = Called("run_weekly_analysis", end,
                                       [data_method |-> data_method,
                                        model_type |-> model_type,
                                        prepared |-> prepared])
                     /\ result' = run_weekly_analysis(prepared, model_type, outcome)

RunPlsAnalysisFull ==
    /\ UNCHANGED tab
    /\ \E end \in DailyEnds :
        /\ Assembled(end)
        /\ \E data_method \in DataMethods :
              \E prepared \in {_prepare_model_data(frame', data_method)} :
                  \E outcome \in SolverOutcomes :
                     /\ call' = Called("run_pls_analysis_full", end,
                                       [data_method |-> data_method,
                                        prepared |-> prepared])
                     /\ result' = run_pls_analysis_full(prepared, outcome)

ComputeCcfHeatmap ==
    /\ UNCHANGED tab
    /\ \E end \in DailyEnds :
        /\ Assembled(end)
        /\ \E lags \in {CcfLags, <<-1, 0, 1>>} :
              /\ call' = Called("compute_ccf_heatmap_df", end, [lags |-> lags])
              /\ result' = compute_ccf_heatmap_df(frame', lags)

MaxAdvancedDays == 51  \* days of daily health data in a store

\* the ranges of a family's calls end around its minimum, or with the data
EndsAround(minimum) == {minimum - 1, minimum, MaxAdvancedDays}

\* analytics_tab.py 36-37: the threshold and the window of the event study
EventThreshold == 10

EventWindow == 2

\* analytics_tab.py 361-363, with the defaults of the controls
ComputeEventStudy ==
    /\ UNCHANGED tab
    /\ \E end \in EndsAround(DaysPerWeek) :
        /\ Assembled(end)
        /\ \E feature \in {"sleep_score", "hydration_ml"}, shock \in {"drop", "spike"} :
              /\ call' = Called("compute_event_study_df", end,
                                 [feature |-> feature, shock |-> shock])
              /\ result' = compute_event_study_df(frame', feature, shock, EventThreshold,
                                                  EventWindow, DaysPerWeek)

\* analytics_tab.py 366-368: the 'Weekly' model type assembles the daily
\* frame and passes it to run_weekly_efficiency_analysis
RunWeeklyEfficiencyAnalysis ==
    /\ UNCHANGED tab
    /\ \E end \in WeeklyEnds :
        /\ Idle
        /\ \E daily \in {prepare_daily_features(store, 1, end, "")} :
              /\ call' = Called("run_weekly_efficiency_analysis", end, <<>>)
              /\ result' = run_weekly_efficiency_analysis(daily)
              /\ frame' = run_weekly_efficiency_analysis_df(daily)
        /\ UNCHANGED store

MaxFeatureDays == 31   \* rows of the daily frames the default windows run over

\* compute_rolling_features(df) with its default windows=(7, 14, 28) and
\* min_periods=3, on a daily frame
ComputeRollingFeatures ==
    /\ UNCHANGED tab
    /\ \E end \in {2, DaysPerWeek, MaxFeatureDays} :
        /\ Idle
        /\ \E daily \in {prepare_daily_features(store, 1, end, "")} :
              /\ call' = Called("compute_rolling_features", end,
                                [windows |-> <<7, 14, 28>>, min_periods |-> 3,
                                 daily |-> compute_rolling_features_df(daily)])
              /\ frame' = compute_rolling_features(daily, <<7, 14, 28>>, 3)
        /\ result' = [kind |-> "frame"]
        /\ UNCHANGED store

NextModel ==
    \/ GetAvailableFeatures
    \/ RunAnalysis
    \/ RunWeeklyAnalysis
    \/ RunPlsAnalysisFull
    \/ ComputeCcfHeatmap
    \/ Return

SpecModel == InitModel /\ [][NextModel]_vars

-----------------------------------------------------------------------------
(* C1: for any store and any range start <= end, prepare_daily_features     *)
(* returns exactly one row per calendar date of the range, ascending, with  *)
(* no duplicate and no missing date.                                        *)
C1_DateRangeCompleteness ==
    call.op = "prepare_daily_features" =>
        frame.index = DateRange(call.start, call.end)

-----------------------------------------------------------------------------
(* C2: when the earliest session of the whole sessions table is on day D,   *)
(* total_study_minutes is NaN on every queried date before D and a          *)
(* non-negative number on every queried date from D on, and it is 0 on      *)
(* every such date that has no session matching the range and the filter.   *)
EarliestDay == CHOOSE d \in {s.day : s \in BagToSet(store.sessions)} :
                   \A s \in BagToSet(store.sessions) : d <= s.day

HasMatchingSession(d) ==
    \E s \in BagToSet(store.sessions) :
        /\ s.day = d
        /\ s.tag \in store.tags
        /\ call.category = "" \/ TagCategory[s.tag] = call.category

C2_TargetNaNBeforeFirstSession ==
    (call.op = "prepare_daily_features" /\ store.sessions # EmptyBag) =>
        \A i \in 1..Len(frame.index) :
            LET d == frame.index[i]
                v == frame.cols[TARGET_VARIABLE][i]
            IN  /\ d < EarliestDay => IsNa(v)
                /\ d >= EarliestDay => NotNa(v) /\ RatLeq(Zero, v)
                /\ (d >= EarliestDay /\ ~HasMatchingSession(d)) => v = Zero

\* a query that starts before D, covers D, and finds no matching session on D
\* (its tag is filtered out or deleted) while a later date has studied minutes
C2_Witness ==
    /\ call.op = "prepare_daily_features"
    /\ store.sessions # EmptyBag
    /\ call.start < EarliestDay /\ EarliestDay < call.end
    /\ ~HasMatchingSession(EarliestDay)
    /\ \E i \in 1..Len(frame.index) :
          /\ frame.index[i] = EarliestDay
          /\ frame.cols[TARGET_VARIABLE][i] = Zero
    /\ \E i \in 1..Len(frame.index) :
          /\ frame.index[i] > EarliestDay
          /\ RatLt(Zero, frame.cols[TARGET_VARIABLE][i])
    /\ IsNa(frame.cols[TARGET_VARIABLE][1])

-----------------------------------------------------------------------------
(* Shared vocabulary of the statements about the analysis entry points *)

\* the call in progress prepared a modeling table
HasTable == "prepared" \in DOMAIN call /\ "model_df" \in DOMAIN call.prepared

\* the frame the preparation of the call in progress started from
InputFrame == IF call.op = "run_weekly_analysis" THEN call.prepared.weekly ELSE frame

\* the positions of the rows of df that have a target
RowsWithTarget(df) ==
    SelectSeq([i \in 1..Len(df.index) |-> i],
              LAMBDA i : df.cols[TARGET_VARIABLE][i] # NaN)

IsErrorDict(r) ==
    /\ r.kind = "dict"
    /\ "error" \in r.keys
    /\ r.keys \ {"error"} = {}

-----------------------------------------------------------------------------
(* C3: under the Imputed method, daily and weekly, the rows of the modeling *)
(* table are the rows of the input frame that have a target, each with the  *)
(* target it had; a row without a target is never kept or filled, and a     *)
(* feature cell holds the input's value or, where that was missing, the     *)
(* feature's mean.                                                          *)
C3_ImputedNeverFillsTarget ==
    (HasTable /\ call.data_method = "Imputed") =>
        LET input == InputFrame
            table == call.prepared.model_df
            keep == RowsWithTarget(input)
        IN  /\ table.index = [j \in 1..Len(keep) |-> input.index[keep[j]]]
            /\ table.cols[TARGET_VARIABLE] =
                   [j \in 1..Len(keep) |-> input.cols[TARGET_VARIABLE][keep[j]]]
            /\ \A c \in DOMAIN table.cols \ {TARGET_VARIABLE} :
                  \A j \in 1..Len(keep) :
                      table.cols[c][j] =
                          IF input.cols[c][keep[j]] # NaN THEN input.cols[c][keep[j]]
                          ELSE MeanCells(input.cols[c])

\* an Imputed daily table made from a frame that has a day without a target
\* and a feature with a gap that was filled
C3_Witness ==
    /\ HasTable
    /\ call.op = "run_analysis"
    /\ call.data_method = "Imputed"
    /\ \E i \in 1..Len(frame.index) : frame.cols[TARGET_VARIABLE][i] = NaN
    /\ \E c \in DOMAIN call.prepared.model_df.cols \ {TARGET_VARIABLE} :
          \E i \in 1..Len(frame.index) :
              /\ frame.cols[c][i] = NaN
              /\ frame.cols[TARGET_VARIABLE][i] # NaN
    /\ \A j \in 1..Len(call.prepared.model_df.index) :
          call.prepared.model_df.cols[TARGET_VARIABLE][j] # NaN

-----------------------------------------------------------------------------
(* C4: _get_available_features returns exactly the candidates (the 14       *)
(* built-in names and the columns that start with 'factor_') that are       *)
(* present in the frame with at least 10 non-missing values.                *)
Candidates ==
    SeqToSet(POTENTIAL_FEATURE_COLS)
        \cup {c \in DOMAIN frame.cols : StartsWith(c, "factor_")}

NonMissing(c) == Cardinality({i \in 1..Len(frame.index) : frame.cols[c][i] # NaN})

C4_AvailableIffTenValues ==
    call.op = "_get_available_features" =>
        /\ SeqToSet(result.value) \subseteq Candidates
        /\ \A c \in Candidates :
              c \in SeqToSet(result.value)
                  <=> (c \in DOMAIN frame.cols /\ NonMissing(c) >= 10)

\* a frame with one candidate at exactly 9 values, left out, and one at
\* exactly 10, returned
C4_Witness ==
    /\ call.op = "_get_available_features"
    /\ \E c \in Candidates :
          /\ c \in DOMAIN frame.cols /\ NonMissing(c) = 9
          /\ c \notin SeqToSet(result.value)
    /\ \E c \in Candidates :
          /\ c \in DOMAIN frame.cols /\ NonMissing(c) = 10
          /\ c \in SeqToSet(result.value)

-----------------------------------------------------------------------------
(* C5: with at least one available feature, the daily preparer returns the  *)
(* error that asks for at least 10 complete days when 9 or fewer rows are   *)
(* usable, and a modeling table when 10 or more are, under both methods.    *)
DailyPreparerCalled == call.op \in {"run_analysis", "run_pls_analysis_full"}

\* the rows the method can use: those with a target, and under Strict with
\* every available feature as well
UsableRows ==
    LET features == _get_available_features(frame)
    IN  Cardinality({i \in 1..Len(frame.index) :
            /\ frame.cols[TARGET_VARIABLE][i] # NaN
            /\ call.data_method = "Strict" =>
                  \A f \in SeqToSet(features) : frame.cols[f][i] # NaN})

C5_DailyRowGate ==
    (DailyPreparerCalled /\ _get_available_features(frame) # <<>>) =>
        /\ UsableRows <= 9 =>
              /\ "error" \in DOMAIN call.prepared
              /\ IsErrorDict(call.prepared.error)
              /\ Contains(call.prepared.error.error, "at least 10 complete days")
        /\ UsableRows >= 10 =>
              /\ "error" \notin DOMAIN call.prepared
              /\ Len(call.prepared.model_df.index) = UsableRows

\* a Strict request with exactly 9 usable rows is refused
C5_Witness ==
    /\ DailyPreparerCalled
    /\ call.data_method = "Strict"
    /\ _get_available_features(frame) # <<>>
    /\ UsableRows = 9
    /\ "error" \in DOMAIN call.prepared
    /\ result = call.prepared.error

-----------------------------------------------------------------------------
(* C6: an entry point whose input is below its minimums returns a           *)
(* dictionary whose only key is 'error': never None, never a bare table.    *)
(* Stated for run_analysis, run_weekly_analysis, run_pls_analysis_full and  *)
(* compute_ccf_heatmap_df.                                                  *)
BelowMinimums ==
    CASE call.op = "run_analysis" ->
             _get_available_features(frame) = <<>> \/ UsableRows < 10
      [] call.op = "run_pls_analysis_full" ->
             \/ Len(_get_available_features(frame)) < 2
             \/ UsableRows < 15
      [] call.op = "run_weekly_analysis" ->
             Len(call.prepared.model_df.index) < 4
      [] call.op = "compute_ccf_heatmap_df" ->
             \A i \in 1..Len(frame.index) : frame.cols[TARGET_VARIABLE][i] = NaN
      [] OTHER -> FALSE

C6_ErrorDictBelowMinimums == BelowMinimums => IsErrorDict(result)

-----------------------------------------------------------------------------
(* C7: run_weekly_analysis returns the error that names the 4-week minimum, *)
(* and fits nothing, exactly when fewer than 4 weekly rows remain after the *)
(* weekly preparation, whatever the data method and the model type.         *)
NamesFourWeekMinimum(r) == IsErrorDict(r) /\ Contains(r.error, "need >=4 weeks")

C7_WeeklyFourWeekGate ==
    call.op = "run_weekly_analysis" =>
        LET rows == Len(call.prepared.model_df.index)
        IN  /\ rows < 4 => NamesFourWeekMinimum(result) /\ "fit" \notin DOMAIN result
            /\ rows >= 4 => ~NamesFourWeekMinimum(result)

\* a 5-day range, one weekly row, asked for a PCA
C7_Witness ==
    /\ call.op = "run_weekly_analysis"
    /\ call.end - call.start + 1 = 5
    /\ call.model_type = "PCA"
    /\ Len(call.prepared.model_df.index) = 1
    /\ NamesFourWeekMinimum(result)

-----------------------------------------------------------------------------
(* C8: when the solver raises on a table that passed the gates, the entry   *)
(* point returns an error dictionary whose message holds the row count and  *)
(* the feature count of the fit; the exception does not reach the caller.   *)
C8_SolverErrorsConverted ==
    ("fit" \in DOMAIN result /\ result.fit.raised) =>
        /\ IsErrorDict(result)
        /\ Contains(result.error, IntText(result.fit.rows))
        /\ Contains(result.error, IntText(Len(call.prepared.available_features)))

-----------------------------------------------------------------------------
(* C9: on the daily path and on the weekly path, a call for which no        *)
(* candidate feature is available returns the no-feature error, and no      *)
(* model is fitted.                                                         *)
NoFeatureAvailable ==
    CASE call.op \in {"run_analysis", "run_pls_analysis_full"} ->
             _get_available_features(frame) = <<>>
      [] call.op = "run_weekly_analysis" ->
             _get_available_features(call.prepared.weekly) = <<>>
      [] OTHER -> FALSE

C9_NoFeatureFailsImmediately ==
    NoFeatureAvailable =>
        /\ IsErrorDict(result)
        /\ result.error = NoFeatureMessage
        /\ "fit" \notin DOMAIN result

-----------------------------------------------------------------------------
(* C10: in the OLS and Lasso families every day name of the table but the   *)
(* first in sorted order is a column of the fitted matrix, and no day name  *)
(* is listed among the significant, insignificant, selected or eliminated   *)
(* factors.                                                                 *)
FittedOlsOrLasso ==
    /\ call.op \in {"run_analysis", "run_weekly_analysis"}
    /\ call.model_type \in {"Standard", "Lasso"}
    /\ "fit" \in DOMAIN result

TableDayNames ==
    {DayName(call.prepared.model_df.index[i]) :
        i \in 1..Len(call.prepared.model_df.index)}

ListedFactors ==
    IF result.kind # "dict" THEN {}
    ELSE IF result.model_type = "Standard"
         THEN SeqToSet(result.significant_factors)
                  \cup SeqToSet(result.insignificant_factors)
    ELSE SeqToSet(result.selected_factors) \cup SeqToSet(result.eliminated_factors)

C10_DummiesFittedNeverListed ==
    FittedOlsOrLasso =>
        LET baseline == CHOOSE b \in TableDayNames :
                            \A other \in TableDayNames : TextLeq(b, other)
        IN  /\ TableDayNames \ {baseline} \subseteq SeqToSet(result.fit.columns)
            /\ baseline \notin SeqToSet(result.fit.columns)
            /\ ListedFactors \cap SeqToSet(DayNames) = {}

\* an OLS fit on a table of all seven day names: six dummies fitted, every
\* feature listed, no day name listed
C10_Witness ==
    /\ FittedOlsOrLasso
    /\ call.model_type = "Standard"
    /\ result.kind = "dict"
    /\ Cardinality(TableDayNames) = 7
    /\ Cardinality(SeqToSet(DayNames) \cap SeqToSet(result.fit.columns)) = 6
    /\ Len(result.insignificant_factors) = Len(call.prepared.available_features)
    /\ result.insignificant_factors # <<>>

-----------------------------------------------------------------------------
(* SpecFeatures: the rolling features of a daily frame, and the weekly      *)
(* analysis over ranges of whole and broken weeks                           *)

MaxFeatureWeeks == 8   \* weeks of the ranges of the weekly analysis

\* the first Monday of the calendar
FirstMonday == WeekEnd(1) + 1

\* the last day of the health data: the Sunday that ends MaxFeatureWeeks
\* whole weeks
LastFeatureDay == FirstMonday + DaysPerWeek * MaxFeatureWeeks - 1

\* the days that can have a session
StudyDays == {1, FirstMonday + 2, FirstMonday + 3, MaxFeatureDays - 2}

\* stores with sessions on some of the study days and a health row a day,
\* without gaps, with days the export skipped, or with a second row for one
\* day that save_health_data stored under the text as typed, after a night
\* with fewer metrics or not
FeatureStores ==
    LET Sessions(S) == SetToBag({[tag |-> "math", day |-> d,
                                  dur |-> CHOOSE dur \in DurationSamples : TRUE] : d \in S})
        Typed(st, d) == [st EXCEPT !.health =
                        [k \in DOMAIN @ \cup {ShortText(d)} |->
                            IF k \in DOMAIN @ THEN @[k]
                            ELSE [NullHealthRow EXCEPT !["sleep_duration_seconds"] =
                                     Num(CHOOSE s \in ManualSleepSamples : TRUE)]]]
        Shorter(st, d) == [st EXCEPT !.health[IsoText(d)] =
                              CHOOSE r \in HealthSamples : r # FullHealthRow]
        Imported(S, gaps) ==
            import_garmin_csv([EmptyStore EXCEPT !.sessions = Sessions(S)],
                              (1..LastFeatureDay) \ gaps)
    IN  {Imported(S, {}) : S \in SUBSET StudyDays}
        \cup {Imported(StudyDays, {2, MaxFeatureDays - 1}),
              Typed(Imported(StudyDays, {}), FirstMonday + 2),
              Typed(Shorter(Imported(StudyDays \cup {FirstMonday + 9}, {}), 3), 1)}

InitFeatures ==
    /\ store \in FeatureStores
    /\ call = NoCall
    /\ frame = NoFrame
    /\ result = NoResult
    /\ tab = NoTab

\* run_weekly_analysis over a range that starts on the first day or on a
\* Monday and ends on a Sunday or in the middle of a week
RunWeeklyAnalysisRange ==
    /\ UNCHANGED tab
    /\
        \E start \in {1, FirstMonday}, end \in {LastFeatureDay - 2, LastFeatureDay} :
            /\ Idle
            /\ frame' = prepare_daily_features(store, start, end, "")
            /\ \E data_method \in DataMethods :
                  \E prepared \in {WeeklyModelData(frame', data_method)} :
                      \E outcome \in SolverOutcomes :
                         /\ call' = [op |-> "run_weekly_analysis", start |-> start,
                                     end |-> end, category |-> "",
                                     data_method |-> data_method,
                                     model_type |-> "Lasso", prepared |-> prepared]
                         /\ result' = run_weekly_analysis(prepared, "Lasso", outcome)
            /\ UNCHANGED store

NextFeatures ==
    \/ ComputeRollingFeatures
    \/ RunWeeklyAnalysisRange
    \/ ComputeCcfHeatmap
    \/ RunWeeklyEfficiencyAnalysis
    \/ ComputeEventStudy
    \/ Return

SpecFeatures == InitFeatures /\ [][NextFeatures]_vars

-----------------------------------------------------------------------------
(* C11 *)

\* the frames compute_rolling_features returned, with the windows it was
\* called with
Rolled ==
    IF call.op = "compute_rolling_features"
    THEN {[out |-> frame, windows |-> call.windows]}
    ELSE IF call.op = "run_weekly_analysis"
    THEN {[out |-> call.prepared.weekly, windows |-> <<1, 2, 4>>]}
    ELSE {}

\* the rollable columns of a frame that have no missing value
CompleteRollable(df) ==
    {c \in SeqToSet(RollableCols) \cap SeqToSet(df.columns) :
        \A i \in 1..Len(df.index) : NotNa(df.cols[c][i])}

\* C11: for every window w and every rollable column without missing values,
\* <col>_roll<w>_mean at a row that has w-1 rows before it is the mean of the
\* w raw values that end at the row, and <col>_lag<w>_mean at a row is
\* <col>_roll<w>_mean w rows earlier, missing on the first w rows
C11_RollingMeanAndLag ==
    \A r \in Rolled : \A k \in 1..Len(r.windows) : \A c \in CompleteRollable(r.out) :
        LET w == r.windows[k]
            raw == r.out.cols[c]
            mean == r.out.cols[c \o "_roll" \o IntText(w) \o "_mean"]
            lag == r.out.cols[c \o "_lag" \o IntText(w) \o "_mean"]
        IN  \A i \in 1..Len(raw) :
               /\ i >= w => mean[i] = RatDiv(SumCells(SubSeq(raw, i - w + 1, i)), w)
               /\ lag[i] = IF i <= w THEN NaN ELSE mean[i - w]

\* the default windows ran over a study column that has no missing value and
\* is not constant: the 7-day mean differs from the day's value, and the last
\* row has a 28-day lag
C11_Witness ==
    /\ call.op = "compute_rolling_features"
    /\ TARGET_VARIABLE \in CompleteRollable(frame)
    /\ LET n == Len(frame.index)
       IN  /\ frame.cols["total_study_minutes_roll7_mean"][n]
                 # frame.cols[TARGET_VARIABLE][n]
           /\ NotNa(frame.cols["total_study_minutes_roll7_mean"][n])
           /\ NotNa(frame.cols["total_study_minutes_lag28_mean"][n])
           /\ frame.cols["total_study_minutes_lag28_mean"][n] # Zero

-----------------------------------------------------------------------------
(* C12 *)

\* the columns of the daily frame that the weekly frame aggregates by sum
SumAggregated(daily) ==
    {a.column : a \in {b \in SeqToSet(WeeklyAggregations) :
                          b.how = "sum" /\ b.column \in DOMAIN daily.cols}}

\* the Sundays that end a Monday-to-Sunday week lying inside the range
CompleteWeeks ==
    {s \in call.start..call.end :
        DayName(s) = "Sunday" /\ s - (DaysPerWeek - 1) >= call.start}

\* the cells of a column on the daily rows dated from Monday to the Sunday s
WeekCells(daily, c, s) ==
    LET rows == SelectSeq([i \in 1..Len(daily.index) |-> i],
                          LAMBDA i : /\ daily.index[i] >= s - (DaysPerWeek - 1)
                                     /\ daily.index[i] <= s)
    IN  [j \in 1..Len(rows) |-> daily.cols[c][rows[j]]]

\* C12: every complete Monday-to-Sunday week of the range has a weekly row,
\* labelled by its Sunday, whose value in every sum-aggregated column is the
\* sum of the column over the daily rows of that week; a range of whole
\* weeks that starts on a Monday has one weekly row per week
C12_WeeklySumsMatchDays ==
    call.op = "run_weekly_analysis" =>
        LET weekly == call.prepared.weekly
            days == call.end - call.start + 1
        IN  /\ \A s \in CompleteWeeks :
                  \E k \in 1..Len(weekly.index) :
                     /\ weekly.index[k] = s
                     /\ \A c \in SumAggregated(frame) :
                           weekly.cols[c][k] = SumCells(WeekCells(frame, c, s))
            /\ (DayName(call.start) = "Monday" /\ days % DaysPerWeek = 0)
                  => Len(weekly.index) = days \div DaysPerWeek

\* a range of exactly 8 whole weeks from a Monday gave 8 weekly rows, and
\* one week sums the study minutes of two of its seven days
C12_Witness ==
    /\ call.op = "run_weekly_analysis"
    /\ DayName(call.start) = "Monday"
    /\ call.end - call.start + 1 = 8 * DaysPerWeek
    /\ Len(call.prepared.weekly.index) = 8
    /\ \E s \in CompleteWeeks :
          LET cells == WeekCells(frame, TARGET_VARIABLE, s)
          IN  /\ Len(cells) = DaysPerWeek
              /\ Cardinality({i \in 1..Len(cells) :
                                NotNa(cells[i]) /\ RatLt(Zero, cells[i])}) = 2
              /\ \E k \in 1..Len(call.prepared.weekly.index) :
                    /\ call.prepared.weekly.index[k] = s
                    /\ call.prepared.weekly.cols[TARGET_VARIABLE][k] = Num(50)

-----------------------------------------------------------------------------
(* SpecFactors: custom factors are registered, logged and deleted, and any  *)
(* range is assembled                                                       *)

MaxLogWrites == 3      \* rows ever written to custom_factor_log
MaxFactorDay == 2      \* days of the factor calendar

\* two names the factor manager accepts
FactorNames == {"deep work", "deep_work"}

\* an empty database, and one that holds a custom_factors row without a log
\* row: add_custom_factor commits the two in separate transactions
InitFactors ==
    /\ store \in {EmptyStore, [EmptyStore EXCEPT !.factors = [n \in {"gym"} |-> 1]]}
    /\ call = NoCall
    /\ frame = NoFrame
    /\ result = NoResult
    /\ tab = NoTab

\* CustomFactorsManager.add_factor
AddCustomFactor == \E name \in FactorNames, start_date \in 1..MaxFactorDay :
    /\ store.log_seq < MaxLogWrites
    /\ store' = add_custom_factor(store, name, start_date)
    /\ Forget

\* CustomFactorsManager.delete_factor, on a factor of the list
DeleteCustomFactor == \E name \in DOMAIN store.factors :
    /\ store' = delete_custom_factor(store, name)
    /\ Forget

\* CustomFactorsManager.toggle_day_override, on the selected factor
ToggleDayOverride == \E name \in DOMAIN store.factors, day \in 1..MaxFactorDay :
    /\ store.log_seq < MaxLogWrites
    /\ store' = toggle_day_override(store, name, day)
    /\ Forget

\* a range that ends with the calendar is assembled
AssembleFactors ==
    /\ UNCHANGED tab
    /\ \E start \in {1, 2} :
        PrepareDailyFeatures(start, MaxFactorDay, "")

NextFactors ==
    \/ AddCustomFactor
    \/ DeleteCustomFactor
    \/ ToggleDayOverride
    \/ AssembleFactors
    \/ Return

SpecFactors == InitFactors /\ [][NextFactors]_vars

-----------------------------------------------------------------------------
(* C13 *)

\* the log rows of a factor dated at or before a day
LoggedUpTo(name, d) == {k \in DOMAIN store.log : k[1] = name /\ k[2] <= d}

\* the value the log gives a factor on a day: that of its latest row dated
\* at or before the day, 0 when there is none
LoggedValue(name, d) ==
    LET upTo == LoggedUpTo(name, d)
    IN  IF upTo = {} THEN Zero
        ELSE Num(store.log[CHOOSE k \in upTo : \A j \in upTo : j[2] <= k[2]].value)

ForwardFillOfUnsharedColumns ==
    call.op = "prepare_daily_features" =>
        \A name \in DOMAIN store.factors :
            (\A other \in DOMAIN store.factors :
                FactorColName(other) = FactorColName(name) => other = name)
            => \A i \in 1..Len(frame.index) :
                  frame.cols[FactorColName(name)][i] = LoggedValue(name, frame.index[i])

\* a factor whose row for the second day was written before its row for the
\* first: the column follows the dates, not the order of writing
WrittenOutOfOrder ==
    /\ call.op = "prepare_daily_features"
    /\ call.start = 1 /\ call.end = 2
    /\ DOMAIN store.factors = {"deep work"}
    /\ LoggedUpTo("deep work", 2) = {<<"deep work", 1>>, <<"deep work", 2>>}
    /\ store.log[<<"deep work", 2>>].id < store.log[<<"deep work", 1>>].id
    /\ frame.cols["factor_deep_work"] = <<Num(1), Num(0)>>

-----------------------------------------------------------------------------
(* C17 *)

\* the 'factor_' columns of a frame
FactorColumnsOf(df) ==
    {c \in SeqToSet(df.columns) : StartsWith(c, CUSTOM_FACTOR_PREFIX)}

\* C17: the assembled frame has exactly one 'factor_' column per registered
\* custom factor, and two distinct registered names never map to the same
\* column
C17_OneColumnPerFactor ==
    call.op = "prepare_daily_features" =>
        /\ Cardinality(FactorColumnsOf(frame)) = Cardinality(DOMAIN store.factors)
        /\ \A a \in DOMAIN store.factors : \A b \in DOMAIN store.factors :
              a # b => FactorColName(a) # FactorColName(b)

-----------------------------------------------------------------------------
(* SpecAdvanced: every entry point, called once and called again, on stores *)
(* that hold seven weeks of daily data                                      *)

\* a night of poor sleep: the score drops by 20 and the stress rises
BadNightRow ==
    [FullHealthRow EXCEPT !["sleep_score"] = Num(60), !["avg_stress"] = Num(45)]

\* the stores: a session on the first day, a health row a day, poor nights
\* on the given days, with or without an activity and a custom factor
AdvancedStores ==
    {[import_garmin_csv(WithFirstSession(base, 1), 1..MaxAdvancedDays)
        EXCEPT !.health = [k \in DOMAIN @ |->
                             IF \E d \in bad : k = IsoText(d) THEN BadNightRow ELSE @[k]]] :
        base \in {EmptyStore, SeededStore}, bad \in {{}, {5, 6}}}

InitAdvanced ==
    /\ store \in AdvancedStores
    /\ call = NoCall
    /\ frame = NoFrame
    /\ result = NoResult
    /\ tab = NoTab

\* the states numpy's global generator can be in when a call draws from it
GeneratorStates == {1, 2}

\* the entry point of call c on the frame it assembled; mc is what
\* errband_mc(repl=200, signif=0.05), which is given no seed, draws
Invoke(c, daily, mc) ==
    CASE c.op = "run_analysis" ->
             run_analysis(_prepare_model_data(daily, c.data_method),
                          c.model_type, c.outcome)
      [] c.op = "run_quantile_regression" ->
             run_quantile_regression(daily, Quantiles, c.outcomes)
      [] c.op = "run_var_irf" ->
             run_var_irf(daily, c.order, c.outcome, IF c.mc_raises THEN <<>> ELSE <<mc>>)
      [] c.op = "run_hmm_states" ->
             run_hmm_states(daily, c.installed, c.outcome)
      [] c.op = "compute_event_study_df" ->
             compute_event_study_df(daily, c.feature, c.shock, EventThreshold,
                                    EventWindow, DaysPerWeek)

RunQuantileRegression ==
    /\ UNCHANGED tab
    /\ \E end \in EndsAround(QuantileMinRows) :
        /\ Assembled(end)
        /\ \E outcomes \in [1..Len(Quantiles) -> FitOutcomes] :
              /\ call' = Called("run_quantile_regression", end, [outcomes |-> outcomes])
              /\ result' = run_quantile_regression(frame', Quantiles, outcomes)

RunVarIrf ==
    /\ UNCHANGED tab
    /\ \E end \in EndsAround(VarMinRows) :
        /\ Assembled(end)
        /\ \E order \in {<<>>, <<0>>, <<1>>, <<VarMaxLags>>}, outcome \in {"raises", "all"},
              mc_raises \in BOOLEAN, mc \in GeneratorStates :
              /\ call' = Called("run_var_irf", end,
                                 [order |-> order, outcome |-> outcome,
                                  mc_raises |-> mc_raises])
              /\ result' = run_var_irf(frame', order, outcome,
                                       IF mc_raises THEN <<>> ELSE <<mc>>)

RunHmmStates ==
    /\ UNCHANGED tab
    /\ \E end \in EndsAround(HmmMinRows) :
        /\ Assembled(end)
        /\ \E installed \in BOOLEAN, outcome \in {"raises", "all"} :
              /\ call' = Called("run_hmm_states", end,
                                 [installed |-> installed, outcome |-> outcome])
              /\ result' = run_hmm_states(frame', installed, outcome)

\* the caller repeats the call it has just made, on the same store and with
\* the same arguments: prepare_daily_features assembles the frame it
\* assembled before, and the solvers do on the same data what they did
RunAgain ==
    /\ UNCHANGED tab
    /\ call.op \in {"run_analysis", "run_quantile_regression", "run_var_irf",
                    "run_hmm_states", "compute_event_study_df"}
    /\ "previous" \notin DOMAIN call
    /\ \E mc \in GeneratorStates : result' = Invoke(call, frame, mc)
    /\ call' = call @@ [previous |-> result]
    /\ UNCHANGED <<store, frame>>

NextAdvanced ==
    \/ GetAvailableFeatures
    \/ RunAnalysis
    \/ RunWeeklyAnalysis
    \/ RunPlsAnalysisFull
    \/ ComputeCcfHeatmap
    \/ RunQuantileRegression
    \/ RunVarIrf
    \/ RunHmmStates
    \/ ComputeEventStudy
    \/ RunWeeklyEfficiencyAnalysis
    \/ RunAgain
    \/ Return

SpecAdvanced == InitAdvanced /\ [][NextAdvanced]_vars

-----------------------------------------------------------------------------
(* C14 *)

\* the activity query of the call in progress returned no row
NoActivityRows ==
    /\ ~Idle
    /\ ActivityData(store, call.start, call.end) = {}

\* a column name that is, or is derived from, an activity column
MentionsActivity(name) == \E c \in ActivityColSet : StartsWith(name, c)

\* the column names a result carries: the columns of the matrix a solver
\* was given, the features of a list or of a table
NamedInResult ==
    (IF "fit" \in DOMAIN result THEN SeqToSet(result.fit.columns) ELSE {})
    \cup (IF result.kind = "list" THEN SeqToSet(result.value) ELSE {})
    \cup (IF result.kind = "table" /\ call.op = "compute_ccf_heatmap_df"
          THEN SeqToSet(result.rows) ELSE {})

\* C14: when the activity query returns no row for the range, the frame has
\* none of the seven activity columns, and every entry point completes: it
\* hands a result to its caller that names no activity column, and when it
\* raises, the exception is the one of its solver call
C14_AbsentActivityColumns ==
    NoActivityRows =>
        /\ \A c \in ActivityColSet :
              c \notin DOMAIN frame.cols /\ c \notin SeqToSet(frame.columns)
        /\ result.kind \in {"frame", "list", "dict", "table", "None", "raised"}
        /\ result.kind = "raised" => result.fit.raised
        /\ \A name \in NamedInResult : ~MentionsActivity(name)

\* a quantile regression fitted on a frame without activity columns
C14_Witness ==
    /\ NoActivityRows
    /\ call.op = "run_quantile_regression"
    /\ result.kind = "dict" /\ "model_type" \in result.keys
    /\ "distance" \notin DOMAIN frame.cols

-----------------------------------------------------------------------------
(* C15 *)

\* C15: an entry point called again on the same store with the same
\* arguments returns the result it returned before
C15_RepeatedCallsAgree ==
    "previous" \in DOMAIN call => result = call.previous

\* the same for the entry points other than run_var_irf, whose solvers are
\* seeded (Lasso, HMM) or draw nothing (PCA with n_components=0.95)
SeededCallsAgree ==
    ("previous" \in DOMAIN call /\ call.op # "run_var_irf") => result = call.previous

\* a Lasso fit that was repeated
LassoRepeated ==
    /\ "previous" \in DOMAIN call
    /\ call.op = "run_analysis" /\ call.model_type = "Lasso"
    /\ result.kind = "dict" /\ "selected_factors" \in result.keys

-----------------------------------------------------------------------------
(* C16 *)

\* a daily entry point prepared a Strict modeling table
StrictTable ==
    /\ call.op \in {"run_analysis", "run_pls_analysis_full"}
    /\ call.data_method = "Strict"
    /\ "model_df" \in DOMAIN call.prepared

\* the positions of the frame's rows that miss neither the target nor an
\* available feature (day_of_week, the index's day name, is never missing)
CompleteRows ==
    SelectSeq([i \in 1..Len(frame.index) |-> i],
              LAMBDA i : \A c \in {TARGET_VARIABLE}
                                    \cup SeqToSet(call.prepared.available_features) :
                             frame.cols[c][i] # NaN)

\* C16: under Strict the modeling table is exactly the frame's rows that
\* miss neither the target nor any available feature, in the frame's order
\* and with the frame's values
C16_StrictKeepsCompleteRows ==
    StrictTable =>
        LET model_df == call.prepared.model_df
        IN  /\ model_df.columns = frame.columns
            /\ model_df.index = [k \in 1..Len(CompleteRows) |-> frame.index[CompleteRows[k]]]
            /\ \A c \in DOMAIN frame.cols :
                  model_df.cols[c] =
                      [k \in 1..Len(CompleteRows) |-> frame.cols[c][CompleteRows[k]]]

\* a Strict table that lost the row of a day without a health row
C16_Witness ==
    /\ StrictTable
    /\ Len(call.prepared.model_df.index) < Len(frame.index)
    /\ \E i \in 1..Len(frame.index) :
          /\ frame.cols[TARGET_VARIABLE][i] # NaN
          /\ frame.cols["sleep_score"][i] = NaN
          /\ \A k \in 1..Len(call.prepared.model_df.index) :
                call.prepared.model_df.index[k] # frame.index[i]

-----------------------------------------------------------------------------
(* SpecActivities: activities are imported, ranges are assembled *)

MaxActivities == 3     \* rows of the activities table
MaxActivityDay == 2    \* days of the activity calendar

\* rows of a Garmin activity export: type, seconds, distance, calories
ActivitySamples ==
    {<<"Running", 1800, 5, 300>>, <<"Trail running", 2400, 8, 450>>,
     <<"Breathwork", 600, 0, 0>>, <<"Yoga", 1500, 0, 120>>}

InitActivities ==
    /\ store = EmptyStore
    /\ call = NoCall
    /\ frame = NoFrame
    /\ result = NoResult
    /\ tab = NoTab

\* import_garmin_activities: one add_activity per row of the file
AddActivity ==
    \E row \in ActivitySamples, day \in 1..MaxActivityDay, hour \in {7, 18} :
        /\ Cardinality(store.activities) < MaxActivities
        /\ store' = add_activity(store, row[1], day, hour, row[2], Num(row[3]), row[4])
        /\ Forget

AssembleActivities ==
    /\ UNCHANGED tab
    /\ \E start \in 1..MaxActivityDay, end \in 1..MaxActivityDay :
        start <= end /\ PrepareDailyFeatures(start, end, "")

NextActivities == AddActivity \/ AssembleActivities \/ Return

SpecActivities == InitActivities /\ [][NextActivities]_vars

-----------------------------------------------------------------------------
(* C18 *)

\* the stored activities of one day
ActivitiesOn(d) == {a \in store.activities : a.day = d}

RECURSIVE Total(_, _)
\* the sum of an integer field over a set of activity rows
Total(S, f) ==
    IF S = {} THEN 0
    ELSE LET a == CHOOSE x \in S : TRUE IN a[f] + Total(S \ {a}, f)

\* the reference aggregates of day d agree with row i of the frame, the
\* calories aside
AggregatesAgree(i, d) ==
    LET A == ActivitiesOn(d)
        R == {a \in A : ContainsNoCase(a.type, "Running")}
        B == {a \in A : ContainsNoCase(a.type, "Breathwork")}
        Col(c) == frame.cols[c][i]
    IN  /\ Col("distance") = Num(Total({[a EXCEPT !.dist = @[1]] : a \in A}, "dist"))
        /\ Col("activity_count") = Num(Cardinality(A))
        /\ Col("total_activity_minutes") = Rat(Total(A, "dur"), 60)
        /\ Col("avg_activity_duration_minutes") = Rat(Total(A, "dur"), 60 * Cardinality(A))
        /\ R # {} => Col("running_minutes") = Rat(Total(R, "dur"), 60)
        /\ B # {} => Col("breathwork_sessions") = Num(Cardinality(B))
        /\ R = {} => Col("running_minutes") = NaN
        /\ B = {} => Col("breathwork_sessions") = NaN

\* C18: on every day of the range that has an activity, the activity
\* columns are the day's aggregates: the sums of the distances, of the
\* durations (in minutes) and of the calories, the number of records, the
\* mean duration, and the minutes and the number of the records whose type
\* contains Running or Breathwork
C18_ActivityAggregates ==
    call.op = "prepare_daily_features" =>
        \A i \in 1..Len(frame.index) :
            ActivitiesOn(frame.index[i]) # {} =>
                /\ AggregatesAgree(i, frame.index[i])
                /\ frame.cols["total_calories"][i] =
                       Num(Total(ActivitiesOn(frame.index[i]), "cal"))

\* the same without the calories
AggregatesButCalories ==
    call.op = "prepare_daily_features" =>
        \A i \in 1..Len(frame.index) :
            ActivitiesOn(frame.index[i]) # {} => AggregatesAgree(i, frame.index[i])

\* a day with a run and a breathwork session
TwoActivitiesOnADay ==
    /\ call.op = "prepare_daily_features"
    /\ \E i \in 1..Len(frame.index) :
          /\ Cardinality(ActivitiesOn(frame.index[i])) = 2
          /\ frame.cols["running_minutes"][i] = Num(40)
          /\ frame.cols["breathwork_sessions"][i] = Num(1)

-----------------------------------------------------------------------------
(* SpecPls: the PLS entry point on stores that reach each of its gates *)

\* a day that has a manual sleep entry only
SleepOnlyRow == [NullHealthRow EXCEPT !["sleep_duration_seconds"] = Num(27000)]

\* the stores: a row a day of one kind, a first session on the first or the
\* second day, its tag deleted or not
PlsStores ==
    {[WithFirstSession(base, first) EXCEPT
         !.health = [k \in {IsoText(d) : d \in 1..MaxModelDays} |-> row],
         !.tags = @ \ gone] :
        base \in {EmptyStore, SeededStore}, first \in 1..2,
        row \in {FullHealthRow, SleepOnlyRow}, gone \in {{}, {"math"}}}

InitPls ==
    /\ store \in PlsStores
    /\ call = NoCall
    /\ frame = NoFrame
    /\ result = NoResult
    /\ tab = NoTab

NextPls == RunPlsAnalysisFull \/ Return

SpecPls == InitPls /\ [][NextPls]_vars

-----------------------------------------------------------------------------
(* C19 *)

\* the PLS entry point was called and the common preparer returned a table
PlsPrepared ==
    /\ call.op = "run_pls_analysis_full"
    /\ "model_df" \in DOMAIN call.prepared

PlsRows == Len(call.prepared.model_df.index)

PlsFeatures == Len(call.prepared.available_features)

PlsTargetFlat ==
    \A i \in 1..PlsRows :
        call.prepared.model_df.cols[TARGET_VARIABLE][i] =
            call.prepared.model_df.cols[TARGET_VARIABLE][1]

PlsRowError ==
    ErrorDict("Not enough data for PLS (need >=15 rows, have " \o IntText(PlsRows) \o ").")

PlsFeatureError ==
    ErrorDict("PLS requires at least 2 feature columns with enough data (have "
                  \o IntText(PlsFeatures) \o ").")

PlsFlatError ==
    ErrorDict("Study minutes have no variation in this period (all equal). PLS cannot fit.")

\* C19: after the preparer succeeds the PLS gates apply in the order rows,
\* features, variance, each with its own message, and a fit that passes
\* them uses min(5, features, rows - 1) components, at least one
C19_PlsGateOrder ==
    PlsPrepared =>
        /\ PlsRowError # PlsFeatureError /\ PlsRowError # PlsFlatError
        /\ PlsFeatureError # PlsFlatError
        /\ IF PlsRows < 15 THEN result = PlsRowError
           ELSE IF PlsFeatures < 2 THEN result = PlsFeatureError
           ELSE IF PlsTargetFlat THEN result = PlsFlatError
           ELSE /\ result \notin {PlsRowError, PlsFeatureError, PlsFlatError}
                /\ "n_components" \in DOMAIN result =>
                      /\ result.n_components >= 1
                      /\ result.n_components <= 5
                      /\ result.n_components <= PlsFeatures
                      /\ result.n_components <= PlsRows - 1
                      /\ result.n_components \in {5, PlsFeatures, PlsRows - 1}

\* too few rows and a single feature: the row error wins
C19_Witness ==
    /\ PlsPrepared
    /\ PlsRows < 15 /\ PlsFeatures < 2
    /\ result = PlsRowError

\* a single feature and a flat target: the feature error wins
PlsFeatureGateFirst ==
    /\ PlsPrepared
    /\ PlsRows >= 15 /\ PlsFeatures < 2 /\ PlsTargetFlat
    /\ result = PlsFeatureError

\* a flat target with enough rows and features
PlsFlatTarget ==
    /\ PlsPrepared
    /\ PlsRows >= 15 /\ PlsFeatures >= 2
    /\ result = PlsFlatError

\* a fit of more than five features uses five components
PlsCapped ==
    /\ PlsPrepared
    /\ PlsFeatures > 5
    /\ "n_components" \in DOMAIN result /\ result.n_components = 5

-----------------------------------------------------------------------------
(* C20 *)

\* the rows of the frame that miss neither the target nor one of the four
\* features of the quantile regression
QuantileRows ==
    Cardinality({i \in 1..Len(frame.index) :
        \A c \in {TARGET_VARIABLE, "sleep_score", "avg_stress",
                  "sleep_duration_hours", "body_battery"} :
            frame.cols[c][i] # NaN})

\* the quantile regression was called and its 20-row gate passed
QuantileGatePassed ==
    /\ call.op = "run_quantile_regression"
    /\ QuantileRows >= 20

\* C20: once the 20-row gate has passed, the call returns a 'Quantile'
\* result and no error; the summaries follow the order of the quantiles; a
\* quantile whose fit fails has the failure in its own summary and no row
\* in the coefficient table, every other quantile has its row, in order
C20_QuantileFailuresAreLocal ==
    QuantileGatePassed =>
        /\ result.kind = "dict" /\ "error" \notin result.keys
        /\ result.model_type = "Quantile"
        /\ [i \in 1..Len(result.summaries) |-> result.summaries[i].q] = Quantiles
        /\ \A i \in 1..Len(Quantiles) :
              IF call.outcomes[i] = "raises"
              THEN /\ result.summaries[i].text =
                          "QuantReg failed at q=" \o Quantiles[i] \o ": " \o SolverErrorText
                   /\ \A k \in 1..Len(result.coeff_df.rows) :
                          result.coeff_df.rows[k] # Quantiles[i]
              ELSE /\ result.summaries[i].text = "summary"
                   /\ \E k \in 1..Len(result.coeff_df.rows) :
                          result.coeff_df.rows[k] = Quantiles[i]
        /\ \A k \in 1..(Len(result.coeff_df.rows) - 1) :
              \E i \in 1..Len(Quantiles) : \E j \in (i + 1)..Len(Quantiles) :
                  /\ result.coeff_df.rows[k] = Quantiles[i]
                  /\ result.coeff_df.rows[k + 1] = Quantiles[j]

\* the median fails, the quartiles are fitted and reported
C20_Witness ==
    /\ QuantileGatePassed
    /\ call.outcomes = <<"fits", "raises", "fits">>
    /\ result.coeff_df.rows = <<"0.25", "0.75">>

-----------------------------------------------------------------------------
(* C21 *)

\* the columns of the frame that run_var_irf fits, the target first
VarCols ==
    SelectSeq(<<TARGET_VARIABLE, "sleep_score", "avg_stress", "sleep_duration_hours">>,
              LAMBDA c : c \in DOMAIN frame.cols)

\* the rows of the frame that miss none of the fitted columns
VarRows ==
    Cardinality({i \in 1..Len(frame.index) :
        \A k \in 1..Len(VarCols) : frame.cols[VarCols[k]][i] # NaN})

\* run_var_irf was called and both of its gates passed
VarGatesPassed ==
    /\ call.op = "run_var_irf"
    /\ Len(VarCols) >= 2
    /\ VarRows >= 40

\* C21: once the variable gate and the 40-row gate have passed, the VAR is
\* fitted with a lag between 1 and 7, and with lag 2 when the selection of
\* the order raised; a fit that returns gives a result without an error key
\* that has one response per fitted column other than the target, in the
\* order of the columns, and when the error bands raised every response has
\* the columns horizon and irf only
C21_VarDegradesGracefully ==
    VarGatesPassed =>
        /\ result.kind \in {"dict", "raised"}
        /\ result.fit.lag \in 1..7
        /\ call.order = <<>> => result.fit.lag = 2
        /\ result.kind = "dict" =>
              /\ "error" \notin result.keys
              /\ result.model_type = "IRF"
              /\ result.lag_order = result.fit.lag
              /\ [j \in 1..Len(result.irf) |-> result.irf[j].shock]
                    = SelectSeq(VarCols, LAMBDA c : c # TARGET_VARIABLE)
              /\ \A j \in 1..Len(result.irf) :
                    IF call.mc_raises
                    THEN result.irf[j].columns = <<"horizon", "irf">>
                    ELSE result.irf[j].columns = <<"horizon", "irf", "lower", "upper">>

\* the selection and the error bands both raise: three responses of the
\* lag-2 fit are returned without bands
C21_Witness ==
    /\ VarGatesPassed
    /\ call.order = <<>> /\ call.mc_raises
    /\ result.kind = "dict" /\ Len(result.irf) = 3
    /\ result.lag_order = 2

\* the selection answers order 0 and the fit uses lag 1
VarZeroOrderSelected ==
    /\ VarGatesPassed
    /\ call.order = <<0>>
    /\ result.kind = "dict" /\ result.lag_order = 1

-----------------------------------------------------------------------------
(* C22 *)

RECURSIVE NumbersIn(_, _)
\* the numbers written in the text s: its maximal runs of digits; acc is
\* <<n>> for the run being read and <<>> outside of a run
NumbersIn(s, acc) ==
    IF s = "" THEN {acc[i] : i \in DOMAIN acc}
    ELSE IF IndexIn(Digits, Head(s), 1) > 0
         THEN NumbersIn(Tail(s), <<(IF acc = <<>> THEN 0 ELSE acc[1]) * 10
                                       + DigitValue(Head(s))>>)
         ELSE {acc[i] : i \in DOMAIN acc} \cup NumbersIn(Tail(s), <<>>)

\* the rows of the frame that miss none of the columns run_hmm_states fits
HmmRows ==
    Cardinality({i \in 1..Len(frame.index) :
        \A c \in {TARGET_VARIABLE, "sleep_score", "avg_stress"} :
            frame.cols[c][i] # NaN})

\* the weeks of the frame with study time
EfficiencyWeeks ==
    LET weekly == ResampleWeekly(frame, EfficiencyAggregations)
    IN  Cardinality({k \in 1..Len(weekly.index) :
            RatLt(Zero, weekly.cols[TARGET_VARIABLE][k])})

\* <<threshold, found>> when the last call failed the minimum sample size of
\* its family with found rows or weeks, <<>> otherwise
MinimumSampleFailure ==
    LET Below(found, minimum) == IF found < minimum THEN <<minimum, found>> ELSE <<>>
    IN  CASE call.op = "run_analysis" /\ _get_available_features(frame) # <<>> ->
                 Below(UsableRows, 10)
          [] call.op = "run_pls_analysis_full" /\ _get_available_features(frame) # <<>> ->
                 IF UsableRows < 10 THEN <<10, UsableRows>> ELSE Below(UsableRows, 15)
          [] call.op = "run_weekly_analysis" ->
                 Below(Len(call.prepared.model_df.index), 4)
          [] call.op = "run_quantile_regression" -> Below(QuantileRows, 20)
          [] call.op = "run_var_irf" -> Below(VarRows, 40)
          [] call.op = "run_hmm_states" /\ call.installed -> Below(HmmRows, 50)
          [] call.op = "run_weekly_efficiency_analysis" -> Below(EfficiencyWeeks, 4)
          [] OTHER -> <<>>

\* the families whose message is built with the count: PLS above the daily
\* minimum, VAR, HMM and the weekly efficiency
ReportsTheCount ==
    \/ call.op = "run_pls_analysis_full" /\ UsableRows >= 10
    \/ call.op \in {"run_var_irf", "run_hmm_states", "run_weekly_efficiency_analysis"}

\* C22: a call that fails the minimum sample size of its family (10 rows for
\* the daily preparer, 4 weeks for the weekly analysis, 15 rows for PLS, 20
\* for the quantile regression, 40 for VAR, 50 for HMM, 4 weeks for the
\* weekly efficiency) returns an error whose message states the threshold
\* and the number of rows or weeks that were found
C22_MessageStatesThresholdAndCount ==
    MinimumSampleFailure # <<>> =>
        /\ IsErrorDict(result)
        /\ MinimumSampleFailure[1] \in NumbersIn(result.error, <<>>)
        /\ MinimumSampleFailure[2] \in NumbersIn(result.error, <<>>)

\* every family states its threshold, and the families that build their
\* message with the count state the count
ThresholdAlwaysStated ==
    MinimumSampleFailure # <<>> =>
        /\ IsErrorDict(result)
        /\ MinimumSampleFailure[1] \in NumbersIn(result.error, <<>>)
        /\ ReportsTheCount => MinimumSampleFailure[2] \in NumbersIn(result.error, <<>>)

\* a VAR on 39 rows is refused with both numbers
VarRefusedWithCount ==
    /\ call.op = "run_var_irf"
    /\ MinimumSampleFailure = <<40, 39>>
    /\ NumbersIn(result.error, <<>>) = {40, 39}

\* a quantile regression on 19 rows is refused with the threshold only
QuantileRefusedWithoutCount ==
    /\ call.op = "run_quantile_regression"
    /\ MinimumSampleFailure = <<20, 19>>
    /\ NumbersIn(result.error, <<>>) = {20}

-----------------------------------------------------------------------------
(* C23 *)

\* the cross-correlation matrix was asked for and returned
CcfReturned == call.op = "compute_ccf_heatmap_df" /\ result.kind = "table"

\* the pairs <<target on day t, f on day t - lag>> over the rows of the
\* frame, in the order of the rows, for the days t that have both values
LaggedPairs(f, lag) ==
    LET n == Len(frame.index)
        RowOf(day) == CHOOSE j \in 1..n : frame.index[j] = day
        HasBoth(i) == /\ \E j \in 1..n : frame.index[j] = frame.index[i] - lag
                      /\ NotNa(frame.cols[TARGET_VARIABLE][i])
                      /\ NotNa(frame.cols[f][RowOf(frame.index[i] - lag)])
        rows == SelectSeq([i \in 1..n |-> i], HasBoth)
    IN  [k \in 1..Len(rows) |->
            <<frame.cols[TARGET_VARIABLE][rows[k]],
              frame.cols[f][RowOf(frame.index[rows[k]] - lag)]>>]

\* a correlation is undefined below two pairs and when one side is constant
Uncorrelated(pairs) ==
    \/ Len(pairs) < 2
    \/ \A k \in 1..Len(pairs) : pairs[k][1] = pairs[1][1]
    \/ \A k \in 1..Len(pairs) : pairs[k][2] = pairs[1][2]

\* the matrix has the given cell for feature f and the j-th lag
CellIsLaggedCorrelation(f, j) ==
    LET pairs == LaggedPairs(f, call.lags[j])
    IN  result.cells[f][j] = IF Uncorrelated(pairs) THEN Zero ELSE <<pairs>>

\* C23: a returned matrix has one row per candidate feature of the frame and
\* one column per requested lag; the cell of feature f and lag L is the
\* correlation of the target on day t with f on day t-L, and 0.0 where that
\* correlation is undefined: no cell is missing
C23_CcfMatrix ==
    CcfReturned =>
        /\ result.rows = SelectSeq(CcfFeatureList, LAMBDA f : f \in DOMAIN frame.cols)
        /\ result.columns = call.lags
        /\ DOMAIN result.cells = SeqToSet(result.rows)
        /\ \A f \in DOMAIN result.cells :
              /\ DOMAIN result.cells[f] = 1..Len(call.lags)
              /\ \A j \in 1..Len(call.lags) :
                    /\ NotNa(result.cells[f][j])
                    /\ CellIsLaggedCorrelation(f, j)

\* the frame has one row per day
OneRowPerDay ==
    \A i, j \in 1..Len(frame.index) : frame.index[i] = frame.index[j] => i = j

\* the statement holds on frames without a repeated date
CcfMatrixOfDistinctDays == OneRowPerDay => C23_CcfMatrix

\* a feature that leads: the cell of a positive lag is a correlation, the
\* cell of the opposite lag is 0.0
CcfLeadingFeature ==
    /\ CcfReturned /\ OneRowPerDay
    /\ \E f \in DOMAIN result.cells : \E j, k \in 1..Len(call.lags) :
          /\ call.lags[j] > 0 /\ call.lags[k] = -call.lags[j]
          /\ result.cells[f][j] # Zero
          /\ result.cells[f][k] = Zero

-----------------------------------------------------------------------------
(* C24 *)

\* the rows of the frame that qualify as shocks of the call: the feature is
\* 10 or more below (drop) or above (spike) the mean of the 7 rows that end
\* with the row, which needs 3 values
ShockRows ==
    LET x == frame.cols[call.feature]
        Base(i) == RollingStat(RollingWindow(x, i, DaysPerWeek), "mean", 3)
        IsShock(i) ==
            /\ NotNa(x[i]) /\ NotNa(Base(i))
            /\ IF call.shock = "drop" THEN RatLeq(RatAdd(x[i], Num(10)), Base(i))
               ELSE RatLeq(RatAdd(Base(i), Num(10)), x[i])
    IN  IF call.feature \notin DOMAIN frame.cols THEN <<>>
        ELSE SelectSeq([i \in 1..Len(frame.index) |-> i], IsShock)

\* the target values of the days at offset o from a shock day, one per
\* shock day whose day at that offset is in the range and has a value
ValuesAt(o) ==
    LET y == frame.cols[TARGET_VARIABLE]
        Row(day) == CHOOSE j \in 1..Len(frame.index) : frame.index[j] = day
        InRange(day) == \E j \in 1..Len(frame.index) : frame.index[j] = day
        hits == SelectSeq(ShockRows,
                          LAMBDA i : /\ InRange(frame.index[i] + o)
                                     /\ NotNa(y[Row(frame.index[i] + o)]))
    IN  [k \in 1..Len(hits) |-> y[Row(frame.index[hits[k]] + o)]]

EventStudyCalled == call.op = "compute_event_study_df"

\* C24: the event study returns None when no day qualifies as a shock, and
\* otherwise 2*window + 2 rows, one per offset from -window to window + 1 in
\* ascending order; the row of offset o has the mean of the target values at
\* day t0 + o over the shock days t0, each shock counted on its own; an
\* offset without values has a missing mean, an offset with one value has
\* the standard error 0
C24_EventStudyRows ==
    EventStudyCalled =>
        IF ShockRows = <<>> THEN result = None
        ELSE /\ result.kind = "table"
             /\ Len(result.rows) = 2 * EventWindow + 2
             /\ \A k \in 1..Len(result.rows) :
                   LET o == k - EventWindow - 1
                       values == ValuesAt(o)
                   IN  /\ result.rows[k].day_offset = o
                       /\ result.rows[k].size = Len(values)
                       /\ result.rows[k].mean =
                              IF values = <<>> THEN NaN ELSE MeanCells(values)
                       /\ Len(values) = 1 => result.rows[k].se = Zero

\* the statement holds on frames without a repeated date
EventStudyOfDistinctDays == OneRowPerDay => C24_EventStudyRows

\* two shocks on consecutive days near the end of the range: an offset
\* counts both shocks, another has one value, and the last has none
OverlappingShocks ==
    /\ EventStudyCalled /\ result.kind = "table"
    /\ Len(ShockRows) = 2
    /\ frame.index[ShockRows[2]] = frame.index[ShockRows[1]] + 1
    /\ \E k \in 1..Len(result.rows) : result.rows[k].size = 2
    /\ \E k \in 1..Len(result.rows) :
          result.rows[k].size = 1 /\ result.rows[k].se = Zero
    /\ result.rows[Len(result.rows)].size = 0
    /\ result.rows[Len(result.rows)].mean = NaN

\* no day qualifies and nothing is returned
NoShockNoResult ==
    /\ EventStudyCalled
    /\ call.feature \in DOMAIN frame.cols
    /\ ShockRows = <<>> /\ result = None

-----------------------------------------------------------------------------
(* C25 *)

\* a PCA was asked for and fitted
FittedPca ==
    /\ call.op \in {"run_analysis", "run_weekly_analysis"}
    /\ call.model_type = "PCA"
    /\ result.kind = "dict" /\ "fit" \in DOMAIN result

\* C25: the principal components are fitted on the available features only:
\* no day-of-week dummy is a column of the matrix handed to PCA, none is a
\* row of the loadings or named in an insight, and the final regression is
\* fitted on the constant and the components
C25_PcaWithoutDummies ==
    FittedPca =>
        /\ result.fit.columns = call.prepared.available_features
        /\ SeqToSet(result.fit.columns) \cap SeqToSet(DayNames) = {}
        /\ SeqToSet(result.component_loadings) \cap SeqToSet(DayNames) = {}
        /\ SeqToSet(result.automated_analysis) \cap SeqToSet(DayNames) = {}
        /\ \A i \in 1..Len(result.X_final) :
              result.X_final[i] = "const" \/ StartsWith(result.X_final[i], "PC_")

\* the final regression has the constant and the components only
PcaRegressesOnComponents ==
    FittedPca =>
        \A i \in 1..Len(result.X_final) :
            result.X_final[i] = "const" \/ StartsWith(result.X_final[i], "PC_")

\* a PCA of a weekly table, whose rows are all Sundays, has no dummy
WeeklyPcaHasNoDummy ==
    /\ FittedPca /\ call.op = "run_weekly_analysis"
    /\ result.fit.columns = call.prepared.available_features


-----------------------------------------------------------------------------
(* C26 *)

\* SpecFrames: the operations that are given a frame, on stores with and
\* without a first session, with and without days the export skipped, and
\* with custom factors whose names have a day abbreviation in them or not
FrameStores ==
    {import_garmin_csv(WithFirstSession(base, first), (1..MaxModelDays) \ gaps) :
        base \in {EmptyStore, SeededStore, add_custom_factor(SeededStore, "Sunlight", 1)},
        first \in 0..1, gaps \in SUBSET GapDays}

InitFrames ==
    /\ store \in FrameStores
    /\ call = NoCall
    /\ frame = NoFrame
    /\ result = NoResult
    /\ tab = NoTab

NextFrames ==
    \/ RunAnalysis
    \/ ComputeRollingFeatures
    \/ RunWeeklyEfficiencyAnalysis
    \/ Return

SpecFrames == InitFrames /\ [][NextFrames]_vars

\* the daily frame the caller assembled and passed to the operation
FrameBefore == prepare_daily_features(store, call.start, call.end, call.category)

\* a column name compute_rolling_features makes: a rollable column followed
\* by _roll<w>_mean, _roll<w>_std, _roll<w>_sum or _lag<w>_mean
IsRollingName(c, windows) ==
    \E r \in SeqToSet(RollableCols), k \in 1..Len(windows) :
        c \in {r \o "_roll" \o IntText(windows[k]) \o "_" \o how :
                  how \in {"mean", "std", "sum"}}
              \cup {r \o "_lag" \o IntText(windows[k]) \o "_mean"}

RolledFrameWithGap ==
    /\ call.op = "compute_rolling_features"
    /\ Len(frame.columns) > Len(call.daily.columns)
    /\ \E c \in DOMAIN call.daily.cols, i \in 1..Len(call.daily.index) :
          call.daily.cols[c][i] = NaN

\* run_weekly_efficiency_analysis returned after assigning the index
EfficiencyReturned ==
    /\ call.op = "run_weekly_efficiency_analysis"
    /\ frame.index # <<>>


-----------------------------------------------------------------------------
(* C27 *)

\* how many entries of a list are a given text
Occurrences(list, text) ==
    Cardinality({i \in 1..Len(list) : list[i] = text})

\* the two factor lists of a Standard or a Lasso result, one after the other
BothLists ==
    IF result.model_type = "Standard"
    THEN result.significant_factors \o result.insignificant_factors
    ELSE result.selected_factors \o result.eliminated_factors

\* run_analysis fitted a Standard or a Lasso model and returned its lists
DailyListsReturned ==
    /\ call.op = "run_analysis"
    /\ call.model_type \in {"Standard", "Lasso"}
    /\ result.kind = "dict"
    /\ "fit" \in DOMAIN result

\* C27: every available feature, custom factors of any name included, is
\* listed exactly once across significant_factors and insignificant_factors
\* of a Standard result and across selected_factors and eliminated_factors of
\* a Lasso result: the day-of-week filter removes no feature whose name has
\* 'Mon', 'Tue', 'Wed', 'Thu', 'Fri', 'Sat' or 'Sun' in it
C27_EveryFeatureListedOnce ==
    DailyListsReturned =>
        \A f \in SeqToSet(call.prepared.available_features) :
            Occurrences(BothLists, _get_display_name(f)) = 1

\* the features whose names have no day abbreviation in them are listed
\* exactly once, and nothing else is listed
OtherFeaturesListedOnce ==
    DailyListsReturned =>
        /\ \A f \in SeqToSet(call.prepared.available_features) :
              Occurrences(BothLists, _get_display_name(f))
                 = IF _is_day_of_week_feature(f) THEN 0 ELSE 1
        /\ Len(BothLists)
              = Cardinality({f \in SeqToSet(call.prepared.available_features) :
                                ~_is_day_of_week_feature(f)})

\* a model was fitted on a custom factor whose name has 'Sun' in it
SunlightFitted ==
    /\ DailyListsReturned
    /\ "factor_Sunlight" \in SeqToSet(result.fit.columns)
    /\ "factor_deep_work" \in SeqToSet(result.fit.columns)
    /\ Occurrences(BothLists, "Deep Work") = 1


-----------------------------------------------------------------------------
(* C28 *)

\* the weeks of the daily frame in which every total_study_minutes is missing
WeeksWithoutTarget(daily) ==
    {WeekEnd(daily.index[i]) : i \in 1..Len(daily.index)}
        \ {WeekEnd(daily.index[i]) :
              i \in {j \in 1..Len(daily.index) : NotNa(daily.cols[TARGET_VARIABLE][j])}}

\* C28: in run_weekly_analysis a calendar week in which every daily
\* total_study_minutes is missing, such as a week before the first recorded
\* session, is not a row of the weekly modeling table, under Imputed and
\* under Strict: it never reaches a model as a row with target 0
C28_MissingWeekNotModelled ==
    call.op = "run_weekly_analysis" =>
        SeqToSet(call.prepared.model_df.index) \cap WeeksWithoutTarget(frame) = {}

\* no row of the weekly modeling table has a missing target
WeeklyTargetNeverMissing ==
    call.op = "run_weekly_analysis" =>
        \A i \in 1..Len(call.prepared.model_df.index) :
            NotNa(call.prepared.model_df.cols[TARGET_VARIABLE][i])

\* a model was fitted on a weekly table that has, with target 0, a week in
\* which every daily total_study_minutes is missing
MissingWeekFitted ==
    /\ call.op = "run_weekly_analysis"
    /\ "fit" \in DOMAIN result
    /\ \E i \in 1..Len(call.prepared.model_df.index) :
          /\ call.prepared.model_df.index[i] \in WeeksWithoutTarget(frame)
          /\ call.prepared.model_df.cols[TARGET_VARIABLE][i] = Zero


-----------------------------------------------------------------------------
(* C29 *)

\* the model types run_analysis knows
KnownModelTypes == {"Standard", "Lasso", "PCA"}

\* the data of the call passes the feature gate and the row gate
PassesBothGates ==
    /\ _get_available_features(frame) # <<>>
    /\ UsableRows >= DailyRowMinimum

\* C29: run_analysis tests its failure conditions in a fixed order: no
\* available feature first, then fewer than 10 usable rows, then the model
\* type. A call with an unrecognised model_type returns 'Invalid model type
\* selected.' exactly when the data passes both gates and the error of the
\* data otherwise, and no call that returns an error has fitted a model
C29_FailureOrder ==
    call.op = "run_analysis" =>
        /\ _get_available_features(frame) = <<>> =>
              result = ErrorDict(NoFeatureMessage)
        /\ (_get_available_features(frame) # <<>> /\ UsableRows < DailyRowMinimum) =>
              result = ErrorDict(NotEnoughDaysMessage(call.data_method))
        /\ (PassesBothGates /\ call.model_type \in KnownModelTypes) =>
              /\ ~IsErrorDict(result)
              /\ "fit" \in DOMAIN result
        /\ call.model_type \notin KnownModelTypes =>
              /\ result = ErrorDict(InvalidModelMessage) <=> PassesBothGates
              /\ IsErrorDict(result)
              /\ "fit" \notin DOMAIN result
        /\ IsErrorDict(result) => "fit" \notin DOMAIN result

\* an unrecognised model type was refused on data that passes both gates
C29_Witness ==
    /\ call.op = "run_analysis"
    /\ call.model_type \notin KnownModelTypes
    /\ PassesBothGates
    /\ result = ErrorDict(InvalidModelMessage)

\* an unrecognised model type on data with features and too few usable rows
\* got the error of the rows
UnknownTypeTooFewRows ==
    /\ call.op = "run_analysis"
    /\ call.model_type \notin KnownModelTypes
    /\ _get_available_features(frame) # <<>>
    /\ UsableRows < DailyRowMinimum
    /\ result = ErrorDict(NotEnoughDaysMessage(call.data_method))

\* a call without an available feature and with too few rows got the error
\* of the features
NoFeatureBeforeRows ==
    /\ call.op = "run_analysis"
    /\ _get_available_features(frame) = <<>>
    /\ UsableRows < DailyRowMinimum
    /\ result = ErrorDict(NoFeatureMessage)


-----------------------------------------------------------------------------
(* The analytics tab: update_charts and its completion callbacks            *)
(* (ui/analytics_tab.py)                                                    *)

MaxRequests == 3   \* update_charts requests that get past the size test

\* self.page, and the kind bg_worker gives the result of each page
Pages == 0..4

PageKinds == <<"overview", "health", "stats", "modeling", "aw">>

\* lines 336-381: the result of the worker of a request; an exception of the
\* computation is caught and carried as result['error']
bg_worker(page, failed) ==
    IF failed THEN [kind |-> "error", error |-> TRUE]
    ELSE [kind |-> PageKinds[page + 1], error |-> FALSE]

\* lines 263-269 and 277-427 of update_charts, once the widget is sized:
\* the chart frames are cleared (the overlay of an earlier request, a child
\* of charts_frame, is destroyed with them), the token is advanced, the
\* overlay is put up and the thread that schedules the callback is started
update_charts(t, page) ==
    [t EXCEPT !._first_update_done = TRUE,
              !._bg_compute_token = @ + 1,
              !._loading_overlay = TRUE,
              !.screen = Blank,
              !.after = @ \cup {[token |-> t._bg_compute_token + 1, page |-> page]}]

\* variant of finish that does not compare the token
finish_Unchecked(t, token, worked) ==
    [t EXCEPT !._loading_overlay = FALSE,
              !.screen = [token |-> token,
                          shows |-> IF worked.error THEN "error" ELSE worked.kind]]

\* lines 383-425: finish(result), here worked, of the request that was given token
finish(t, token, worked) ==
    IF t._bg_compute_token # token THEN t
    ELSE [t EXCEPT !._loading_overlay = FALSE,
                   !.screen = [token |-> token,
                               shows |-> IF worked.error THEN "error" ELSE worked.kind]]

InitTab ==
    /\ store = EmptyStore
    /\ call = NoCall
    /\ frame = NoFrame
    /\ result = NoResult
    /\ tab = NoTab

\* a request: a control of the tab calls update_charts. Until the charts
\* frame is wider and higher than 150 pixels the call only schedules itself
\* again (lines 265-269)
UpdateCharts ==
    /\ tab._bg_compute_token < MaxRequests
    /\ \E page \in Pages, sized \in BOOLEAN :
          tab' = IF ~tab._first_update_done /\ ~sized THEN tab
                 ELSE update_charts(tab, page)
    /\ UNCHANGED <<store, call, frame, result>>

\* line 427: the event loop runs one of the scheduled callbacks, in any
\* order: the worker, then finish with its result
RunCallback ==
    /\ \E cb \in tab.after, failed \in BOOLEAN :
          tab' = [finish(tab, cb.token, bg_worker(cb.page, failed))
                     EXCEPT !.after = @ \ {cb}]
    /\ UNCHANGED <<store, call, frame, result>>

NextTab ==
    \/ UpdateCharts
    \/ RunCallback

SpecTab == InitTab /\ [][NextTab]_vars

-----------------------------------------------------------------------------
(* C30 *)

C30_StaleCallbackDrawsNothing ==
    [][\A cb \in tab.after :
          (tab'.after = tab.after \ {cb} /\ cb.token # tab._bg_compute_token)
             => /\ tab'.screen = tab.screen
                /\ tab'._loading_overlay = tab._loading_overlay]_vars

EarlierCallbacksStillScheduled ==
    /\ tab.screen.token = tab._bg_compute_token
    /\ tab.screen # Blank
    /\ Cardinality({cb \in tab.after : cb.token < tab._bg_compute_token}) >= 2

\* a later request was issued while the callback of an earlier one is
\* scheduled: the overlay is up and the screen is blank
RequestOvertaken ==
    /\ \E cb \in tab.after : cb.token < tab._bg_compute_token
    /\ tab._loading_overlay
    /\ tab.screen = Blank

====
